---- MODULE Spec2Model ----
(***************************************************************************)
(* Kryos SDK: the transport client (APIModule), its retry policy, its      *)
(* multipart file sends and its batch send, modelled as a state machine.   *)
(*                                                                         *)
(* One logical send is one record of the sequence `sends`.  A send is      *)
(* suspended either on an HTTP exchange (pc = "request") or on the backoff *)
(* timer (pc = "sleep"); everything between two suspension points runs in  *)
(* one step, as it does on the event loop.                                 *)
(***************************************************************************)
EXTENDS Integers, Sequences, FiniteSets, TLC

VARIABLES
    retryAttempts,  \* config.retryAttempts
    retryDelay,     \* config.retryDelay
    sends,          \* the logical sends started so far, in start order
    entries,        \* batchSendEntries: the argument
    bpc,            \* batchSendEntries: position of the call
    bi,             \* batchSendEntries: the loop variable i
    results,        \* batchSendEntries: the local array results
    chunks,         \* batchSendEntries: the sizes of the chunks started so far
    bError,         \* batchSendEntries: the error the call rejected with
    norm,           \* getRoutePattern: the request and the routes derived from it
    health,         \* healthCheck: one invocation of the handler
    mw,             \* MiddlewareModule, the host application and its one request
    mon,            \* MonitoringModule: the sampling timer and the metrics
    form,           \* flattenAndAddToForm: the payload and the fields appended
    sev,            \* getErrorSeverity: the error and its classification
    conf,           \* the Config singleton (but its retry fields) and the SDKs built on it
    tele            \* the clock and the telemetry payloads the transport has built

vars == <<retryAttempts, retryDelay, sends, entries, bpc, bi, results, chunks, bError,
          norm, health, mw, mon, form, sev, conf, tele>>

otherVars == <<mon, form, sev, conf, tele>>

appVars == <<norm, health, mw, otherVars>>

batchVars == <<entries, bpc, bi, results, chunks, bError>>

-----------------------------------------------------------------------------
(* Bounds *)

MaxRetries == 3        \* largest retry ceiling explored for a single send
MaxDelay == 2          \* largest base delay (ms) explored
MaxFiles == 2          \* longest file list explored
MaxEntries == 11       \* longest batch explored (two chunks)
MaxSendable == 2       \* most batch members that pass local validation
MaxBatchRetries == 2   \* largest retry ceiling explored for a batch

-----------------------------------------------------------------------------
(* JavaScript values *)

Undef == "undefined"

Truthy(v) == v \notin {Undef, ""}

NullObj == [isNull |-> TRUE, externalId |-> Undef, dataType |-> Undef, field |-> Undef]

Obj(id, type, f) == [isNull |-> FALSE, externalId |-> id, dataType |-> type, field |-> f]

(* The file system seen by fs.existsSync: a regular file, a directory and a
   path that does not exist. *)
Paths == {"a.txt", "dirA", "gone.txt"}

FsKind(p) ==
    CASE p = "a.txt" -> "file"
      [] p = "dirA" -> "dir"
      [] OTHER -> "none"

existsSync(p) == FsKind(p) # "none"

FileLists == UNION {[1..n -> Paths] : n \in 0..MaxFiles}

-----------------------------------------------------------------------------
(* Errors *)

NoError == [prefix |-> "", status |-> 0, detail |-> "", id |-> 0]

(* The errors axios rejects an exchange with: a response with a non-success
   status (with or without an `error` field in its body), a request that got
   no response (timeout), a request that could not be set up. *)
AxiosErrors ==
    { [response |-> TRUE,  status |-> 500, dataError |-> "server exploded",
       request |-> TRUE,  message |-> "Request failed with status code 500"],
      [response |-> TRUE,  status |-> 400, dataError |-> Undef,
       request |-> TRUE,  message |-> "Request failed with status code 400"],
      [response |-> FALSE, status |-> 0,   dataError |-> Undef,
       request |-> TRUE,  message |-> "timeout of 30000ms exceeded"],
      [response |-> FALSE, status |-> 0,   dataError |-> Undef,
       request |-> FALSE, message |-> "Invalid URL"] }

(* formatError: the message is modelled by its prefix, the status and the
   detail that follows the colon; id names the exchange that raised it. *)
formatError(error, id) ==
    IF error.response
    THEN [prefix |-> "API Error", status |-> error.status,
          detail |-> IF Truthy(error.dataError) THEN error.dataError ELSE error.message,
          id |-> id]
    ELSE IF error.request
    THEN [prefix |-> "Network Error", status |-> 0, detail |-> error.message, id |-> id]
    ELSE [prefix |-> "Request Error", status |-> 0, detail |-> error.message, id |-> id]

ValidationError(msg) == [prefix |-> msg, status |-> 0, detail |-> "", id |-> 0]

FileNotFound(filePath, id) ==
    [prefix |-> "File not found", status |-> 0, detail |-> filePath, id |-> id]

-----------------------------------------------------------------------------
(* One logical send *)

NoBody == [data |-> Undef, id |-> 0]

NewSend(op, arg, files) ==
    [op |-> op, arg |-> arg, files |-> files,
     pc |-> "new", retries |-> 0, delay |-> 0, attempt |-> 0,
     attempts |-> 0,      \* invocations of requestFn
     http |-> 0,          \* calls of httpClient.get / httpClient.post
     sleeps |-> <<>>,     \* the setTimeout durations, in order
     failed |-> 0,        \* attempts that ended in the catch block
     value |-> NoBody, reason |-> NoError]

(* Mutant: the value of requestFn is dropped (`await` without `return`). *)
ResolveDropsBody(sd, body) == [sd EXCEPT !.pc = "resolved", !.value = NoBody]

Resolve(sd, body) == [sd EXCEPT !.pc = "resolved", !.value = body]

Reject(sd, err) == [sd EXCEPT !.pc = "rejected", !.reason = err]

(* Mutant: constant backoff, `delay` instead of `delay * attempt`. *)
CatchFlatDelay(sd, err) ==
    LET sd1 == [sd EXCEPT !.failed = @ + 1]
    IN  IF sd1.attempt = sd1.retries
        THEN Reject(sd1, err)
        ELSE [sd1 EXCEPT !.pc = "sleep", !.sleeps = Append(@, sd1.delay)]

(* Mutant: the last failure is swallowed, the loop just ends. *)
CatchSwallows(sd, err) ==
    LET sd1 == [sd EXCEPT !.failed = @ + 1]
    IN  IF sd1.attempt = sd1.retries
        THEN Resolve(sd1, NoBody)
        ELSE [sd1 EXCEPT !.pc = "sleep", !.sleeps = Append(@, sd1.delay * sd1.attempt)]

(* Mutant: no backoff, the next attempt is issued straight from the catch
   block. *)
CatchNoSleep(sd, err) ==
    LET sd1 == [sd EXCEPT !.failed = @ + 1]
    IN  IF sd1.attempt = sd1.retries
        THEN Reject(sd1, err)
        ELSE [sd1 EXCEPT !.pc = "request", !.attempt = @ + 1,
                         !.attempts = @ + 1, !.http = @ + 1]

(* retryRequest, the catch block: rethrow on the last attempt, otherwise
   start the backoff timer. *)
Catch(sd, err) ==
    LET sd1 == [sd EXCEPT !.failed = @ + 1]
    IN  IF sd1.attempt = sd1.retries
        THEN Reject(sd1, err)
        ELSE [sd1 EXCEPT !.pc = "sleep", !.sleeps = Append(@, sd1.delay * sd1.attempt)]

(* sendWithFiles, up to the call of httpClient.post: the first path that
   fails fs.existsSync, 0 if none does. *)
FirstMissing(filePaths) ==
    IF \E k \in 1..Len(filePaths) : ~existsSync(filePaths[k])
    THEN CHOOSE k \in 1..Len(filePaths) :
            /\ ~existsSync(filePaths[k])
            /\ \A j \in 1..(k-1) : existsSync(filePaths[j])
    ELSE 0

(* requestFn of sendUserData / sendEntryData, and of the operations without
   files: runs until its HTTP call is issued or it throws. *)
RequestFn(sd) ==
    LET sd1 == [sd EXCEPT !.attempts = @ + 1]
    IN  IF Len(sd1.files) > 0 /\ FirstMissing(sd1.files) # 0
        THEN Catch(sd1, FileNotFound(sd1.files[FirstMissing(sd1.files)], sd1.attempts))
        ELSE [sd1 EXCEPT !.pc = "request", !.http = @ + 1]

(* retryRequest, the loop head. *)
LoopHead(sd) ==
    IF sd.attempt <= sd.retries
    THEN RequestFn(sd)
    ELSE Resolve(sd, NoBody)

(* retryRequest, entry: `maxRetries || this.config.retryAttempts`. *)
Retries(maxRetries, cfgRetries) ==
    IF maxRetries # 0 THEN maxRetries ELSE cfgRetries

retryRequest(sd, maxRetries, cfgRetries, cfgDelay) ==
    LoopHead([sd EXCEPT !.retries = Retries(maxRetries, cfgRetries),
                        !.delay = cfgDelay,
                        !.attempt = 1])

-----------------------------------------------------------------------------
(* The operations of the transport, up to their first suspension point *)

UserDataInputs ==
    {NullObj} \cup {Obj(id, Undef, Undef) : id \in {Undef, "", "u1"}}

validDataTypes == {"user_data", "event_data", "custom_data"}

EntryDataInputs ==
    {NullObj} \cup
    {Obj(id, t, Undef) : id \in {Undef, "e1"}, t \in validDataTypes \cup {Undef, "bogus"}}

FieldInputs == {NullObj} \cup {Obj(Undef, Undef, f) : f \in {Undef, "x"}}

ReadOps == {"healthCheck", "getUsers", "getEntries", "getFiles"}

(* Mutant: only the absence of the record is checked, not its externalId. *)
sendUserDataNoIdCheck(userData, files, cfgRetries, cfgDelay) ==
    LET sd == NewSend("sendUserData", userData, files)
    IN  IF userData.isNull
        THEN Reject(sd, ValidationError("User data must include externalId"))
        ELSE retryRequest(sd, 0, cfgRetries, cfgDelay)

sendUserData(userData, files, cfgRetries, cfgDelay) ==
    LET sd == NewSend("sendUserData", userData, files)
    IN  IF userData.isNull \/ ~Truthy(userData.externalId)
        THEN Reject(sd, ValidationError("User data must include externalId"))
        ELSE retryRequest(sd, 0, cfgRetries, cfgDelay)

sendEntryData(entryData, files, cfgRetries, cfgDelay) ==
    LET sd == NewSend("sendEntryData", entryData, files)
    IN  IF entryData.isNull \/ ~Truthy(entryData.externalId) \/ ~Truthy(entryData.dataType)
        THEN Reject(sd, ValidationError("Entry data must include externalId and dataType"))
        ELSE retryRequest(sd, 0, cfgRetries, cfgDelay)

(* sendMetrics, sendEvent, sendError: the argument must be present and, for
   the last two, carry eventType / message (modelled by `field`). *)
sendWrapped(op, arg, cfgRetries, cfgDelay) ==
    LET sd == NewSend(op, arg, <<>>)
        bad == CASE op = "sendMetrics" -> arg.isNull
                 [] OTHER -> arg.isNull \/ ~Truthy(arg.field)
        msg == CASE op = "sendMetrics" -> "Metrics data is required"
                 [] op = "sendEvent" -> "Event data must include eventType"
                 [] OTHER -> "Error data must include message"
    IN  IF bad
        THEN Reject(sd, ValidationError(msg))
        ELSE retryRequest(sd, 0, cfgRetries, cfgDelay)

readOp(op, cfgRetries, cfgDelay) ==
    retryRequest(NewSend(op, NullObj, <<>>), 0, cfgRetries, cfgDelay)

-----------------------------------------------------------------------------
(* Actions of a single send *)

SendUserData ==
    /\ sends = <<>>
    /\ \E userData \in UserDataInputs, files \in FileLists :
          sends' = <<sendUserData(userData, files, retryAttempts, retryDelay)>>
    /\ UNCHANGED <<retryAttempts, retryDelay, batchVars, appVars>>

SendEntryData ==
    /\ sends = <<>>
    /\ \E entryData \in EntryDataInputs, files \in FileLists :
          sends' = <<sendEntryData(entryData, files, retryAttempts, retryDelay)>>
    /\ UNCHANGED <<retryAttempts, retryDelay, batchVars, appVars>>

SendWrapped ==
    /\ sends = <<>>
    /\ \E op \in {"sendMetrics", "sendEvent", "sendError"}, arg \in FieldInputs :
          sends' = <<sendWrapped(op, arg, retryAttempts, retryDelay)>>
    /\ UNCHANGED <<retryAttempts, retryDelay, batchVars, appVars>>

ReadOp ==
    /\ sends = <<>>
    /\ \E op \in ReadOps :
          sends' = <<readOp(op, retryAttempts, retryDelay)>>
    /\ UNCHANGED <<retryAttempts, retryDelay, batchVars, appVars>>

(* The HTTP exchange of send s answers with a success status: requestFn
   returns response.data and retryRequest returns it. *)
HttpSuccess(s) ==
    /\ sends[s].pc = "request"
    /\ sends' = [sends EXCEPT ![s] = Resolve(@, [data |-> "body", id |-> @.attempts])]
    /\ UNCHANGED <<retryAttempts, retryDelay, batchVars, appVars>>

(* The HTTP exchange of send s fails: the response interceptor rejects with
   formatError(error), which retryRequest catches. *)
HttpFailure(s) ==
    /\ sends[s].pc = "request"
    /\ \E error \in AxiosErrors :
          sends' = [sends EXCEPT ![s] = Catch(@, formatError(error, @.attempts))]
    /\ UNCHANGED <<retryAttempts, retryDelay, batchVars, appVars>>

(* Mutant: the sleep promise is never resolved. *)
TimerNeverFires(s) ==
    /\ sends[s].pc = "sleep"
    /\ UNCHANGED vars

(* The backoff timer of send s fires: attempt++ and the loop goes round. *)
TimerFires(s) ==
    /\ sends[s].pc = "sleep"
    /\ sends' = [sends EXCEPT ![s] = LoopHead([@ EXCEPT !.attempt = @ + 1])]
    /\ UNCHANGED <<retryAttempts, retryDelay, batchVars, appVars>>

-----------------------------------------------------------------------------
(* batchSendEntries *)

batchSize == 10

Min(a, b) == IF a < b THEN a ELSE b

(* Array.prototype.slice(from, to): the elements at 0-based positions
   from .. to-1, clipped to the array. *)
slice(arr, from, to) ==
    [j \in 1..(Min(to, Len(arr)) - from) |-> arr[from + j]]

Settled(sd) == sd.pc \in {"resolved", "rejected"}

(* Mutant: the outcomes come back in reverse order. *)
allSettledReversed(promises) ==
    [j \in 1..Len(promises) |->
        LET p == promises[Len(promises) + 1 - j]
        IN  IF p.pc = "resolved"
            THEN [status |-> "fulfilled", value |-> p.value, reason |-> NoError]
            ELSE [status |-> "rejected", value |-> NoBody, reason |-> p.reason]]

(* Mutant: Promise.all-like, the first rejection becomes every member's outcome. *)
allSettledFailFast(promises) ==
    IF \E j \in 1..Len(promises) : promises[j].pc = "rejected"
    THEN LET f == CHOOSE j \in 1..Len(promises) :
                    /\ promises[j].pc = "rejected"
                    /\ \A k \in 1..(j-1) : promises[k].pc # "rejected"
         IN  [j \in 1..Len(promises) |->
                [status |-> "rejected", value |-> NoBody, reason |-> promises[f].reason]]
    ELSE [j \in 1..Len(promises) |->
            [status |-> "fulfilled", value |-> promises[j].value, reason |-> NoError]]

(* Promise.allSettled: one outcome per promise, in the order of the promises. *)
allSettled(promises) ==
    [j \in 1..Len(promises) |->
        IF promises[j].pc = "resolved"
        THEN [status |-> "fulfilled", value |-> promises[j].value, reason |-> NoError]
        ELSE [status |-> "rejected", value |-> NoBody, reason |-> promises[j].reason]]

(* Mutant: off by one, a one-element array is rejected too. *)
rejectsInputOffByOne(arg) == ~arg.isArray \/ Len(arg.items) <= 1

(* The guard at the head of batchSendEntries. *)
rejectsInput(arg) == ~arg.isArray \/ Len(arg.items) = 0

(* The arguments explored: a non-array, and arrays of 0..MaxEntries entries
   of which at most MaxSendable carry an externalId; entry i is tagged i. *)
BatchInputs ==
    {[isArray |-> FALSE, items |-> <<>>]} \cup
    { [isArray |-> TRUE,
       items |-> [i \in 1..n |-> Obj(IF i \in ok THEN "e1" ELSE Undef, "event_data", i)]] :
         n \in 0..MaxEntries, ok \in {S \in SUBSET (1..MaxEntries) : Cardinality(S) <= MaxSendable} }

(* Mutant: no chunking, every remaining entry is started at once. *)
StartChunkUnbounded(arr, from, cfgRetries, cfgDelay) ==
    LET batch == slice(arr, from, Len(arr))
    IN  [j \in 1..Len(batch) |-> sendEntryData(batch[j], <<>>, cfgRetries, cfgDelay)]

(* Mutant: the members of a chunk draw on one retry budget, only the first
   member may retry. *)
StartChunkSharedBudget(arr, from, cfgRetries, cfgDelay) ==
    LET batch == slice(arr, from, from + batchSize)
    IN  [j \in 1..Len(batch) |->
            sendEntryData(batch[j], <<>>, IF j = 1 THEN cfgRetries ELSE 1, cfgDelay)]

(* `batch.map(entry => this.sendEntryData(entry))`: every member runs up to
   its first suspension point before the chunk is awaited. *)
StartChunk(arr, from, cfgRetries, cfgDelay) ==
    LET batch == slice(arr, from, from + batchSize)
    IN  [j \in 1..Len(batch) |-> sendEntryData(batch[j], <<>>, cfgRetries, cfgDelay)]

BatchSendEntries ==
    /\ bpc = "idle"
    /\ sends = <<>>
    /\ \E arg \in BatchInputs :
          /\ entries' = arg
          /\ IF rejectsInput(arg)
             THEN /\ bpc' = "rejected"
                  /\ bError' = ValidationError("Entries must be a non-empty array")
                  /\ UNCHANGED <<sends, bi, results, chunks>>
             ELSE /\ bpc' = "awaiting"
                  /\ bi' = 0
                  /\ results' = <<>>
                  /\ sends' = StartChunk(arg.items, 0, retryAttempts, retryDelay)
                  /\ chunks' = <<Len(sends')>>
                  /\ UNCHANGED bError
    /\ UNCHANGED <<retryAttempts, retryDelay, appVars>>

(* Every send of the awaited chunk has settled: the outcomes are pushed, i
   advances, and either the next chunk is started or the call returns. *)
BatchChunkSettled ==
    /\ bpc = "awaiting"
    /\ \A j \in (bi + 1)..Len(sends) : Settled(sends[j])
    /\ results' = results \o allSettled(slice(sends, bi, Len(sends)))
    /\ bi' = bi + batchSize
    /\ IF bi' < Len(entries.items)
       THEN /\ sends' = sends \o StartChunk(entries.items, bi', retryAttempts, retryDelay)
            /\ chunks' = Append(chunks, Len(sends') - Len(sends))
            /\ UNCHANGED bpc
       ELSE /\ bpc' = "resolved"
            /\ UNCHANGED <<sends, chunks>>
    /\ UNCHANGED <<retryAttempts, retryDelay, entries, bError, appVars>>

-----------------------------------------------------------------------------
(* getRoutePattern.  A path is the sequence of its characters. *)

MaxSegments == 2       \* most path segments of a request URL explored

Digits == {"0", "1", "2", "3", "4", "5", "6", "7", "8", "9"}

(* The character class [a-f0-9-]. *)
UuidChars == Digits \cup {"a", "b", "c", "d", "e", "f", "-"}

SegUsers == <<"u", "s", "e", "r", "s">>

SegV2 == <<"v", "2">>

SegNumeric == <<"1", "2", "3">>

SegDigitsThenLetters == <<"1", "2", "3", "a", "b", "c">>

SegUuidDigitFirst ==
    <<"3", "f", "a", "8", "5", "f", "6", "4", "-", "5", "7", "1", "7", "-", "4", "5", "6", "2", "-", "b", "3", "f", "c", "-", "2", "c", "9", "6", "3", "f", "6", "6", "a", "f", "a", "6">>

SegUuidLetterFirst ==
    <<"f", "4", "7", "a", "c", "1", "0", "b", "-", "5", "8", "c", "c", "-", "4", "3", "7", "2", "-", "a", "5", "6", "7", "-", "0", "e", "0", "2", "b", "2", "c", "3", "d", "4", "7", "9">>

SegSha1 ==
    <<"d", "a", "3", "9", "a", "3", "e", "e", "5", "e", "6", "b", "4", "b", "0", "d", "3", "2", "5", "5", "b", "f", "e", "f", "9", "5", "6", "0", "1", "8", "9", "0", "a", "f", "d", "8", "0", "7", "0", "9">>

Segments ==
    {SegUsers, SegV2, SegNumeric, SegDigitsThenLetters,
     SegUuidDigitFirst, SegUuidLetterFirst, SegSha1}

Queries == {<<>>, <<"?", "q", "=", "x">>, <<"?", "n", "e", "x", "t", "=", "/", "4", "2">>}

RECURSIVE JoinPath(_)
JoinPath(segs) ==
    IF segs = <<>> THEN <<>> ELSE <<"/">> \o Head(segs) \o JoinPath(Tail(segs))

(* req.url of the requests explored. *)
Urls ==
    {JoinPath(segs) \o q :
        segs \in UNION {[1..n -> Segments] : n \in 1..MaxSegments}, q \in Queries}

(* req.route.path as the framework exposes it; <<>> when there is none. *)
RoutePaths ==
    {<<>>, <<"/", "u", "s", "e", "r", "s", "/", ":", "i", "d">>, <<"/", "u", "s", "e", "r", "s", "/", ":", "i", "d", "?">>, <<"/", "2", "f", "a", "/", "v", "e", "r", "i", "f", "y">>}

RECURSIVE DropDigits(_)
DropDigits(s) ==
    IF s # <<>> /\ Head(s) \in Digits THEN DropDigits(Tail(s)) ELSE s

(* Mutant: the `g` flag is missing, only the first match is replaced. *)
ReplaceNumericFirstOnly(s) ==
    IF \E k \in 1..(Len(s) - 1) : s[k] = "/" /\ s[k + 1] \in Digits
    THEN LET k == CHOOSE k \in 1..(Len(s) - 1) :
                    /\ s[k] = "/" /\ s[k + 1] \in Digits
                    /\ \A j \in 1..(k - 1) : ~(s[j] = "/" /\ s[j + 1] \in Digits)
         IN  SubSeq(s, 1, k) \o <<":", "i", "d">> \o DropDigits(SubSeq(s, k + 1, Len(s)))
    ELSE s

(* The concatenation of pieces[lo..hi]. *)
RECURSIVE Flatten(_, _, _)
Flatten(pieces, lo, hi) ==
    IF lo > hi THEN <<>>
    ELSE IF lo = hi THEN pieces[lo]
    ELSE LET mid == (lo + hi) \div 2
         IN  Flatten(pieces, lo, mid) \o Flatten(pieces, mid + 1, hi)

(* .replace(/\/\d+/g, '/:id'): a slash followed by a digit starts a match,
   which takes the whole run of digits after the slash. *)
ReplaceNumeric(s) ==
    LET starts(k) == s[k] = "/" /\ k < Len(s) /\ s[k + 1] \in Digits
        taken(i) == \E k \in 1..(i - 1) : starts(k) /\ \A j \in (k + 1)..i : s[j] \in Digits
        pieces == [i \in 1..Len(s) |->
                     IF starts(i) THEN <<"/", ":", "i", "d">>
                     ELSE IF taken(i) THEN <<>>
                     ELSE <<s[i]>>]
    IN  Flatten(pieces, 1, Len(s))

(* .replace(/\/[a-f0-9-]{36}/g, '/:uuid'): a slash followed by 36 characters
   of the class starts a match, which takes exactly those 36 characters. *)
ReplaceUuid(s) ==
    LET starts(k) == s[k] = "/" /\ k + 36 <= Len(s) /\ \A j \in (k + 1)..(k + 36) : s[j] \in UuidChars
        taken(i) == \E k \in 1..(i - 1) : k + 36 >= i /\ starts(k)
        pieces == [i \in 1..Len(s) |->
                     IF starts(i) THEN <<"/", ":", "u", "u", "i", "d">>
                     ELSE IF taken(i) THEN <<>>
                     ELSE <<s[i]>>]
    IN  Flatten(pieces, 1, Len(s))

(* .replace(/\?.*$/, '') *)
StripQuery(s) ==
    IF \E k \in 1..Len(s) : s[k] = "?"
    THEN SubSeq(s, 1, (CHOOSE k \in 1..Len(s) : s[k] = "?" /\ \A j \in 1..(k - 1) : s[j] # "?") - 1)
    ELSE s

getRoutePattern(req) ==
    IF req.routePath # <<>>
    THEN req.routePath
    ELSE StripQuery(ReplaceUuid(ReplaceNumeric(req.url)))

NormIdle == [pc |-> "idle", url |-> <<>>, routePath |-> <<>>, once |-> <<>>, twice |-> <<>>]

(* The route of a request is derived. *)
NormalizeRoute ==
    /\ norm.pc = "start"
    /\ norm' = [norm EXCEPT !.pc = "once", !.once = getRoutePattern(norm)]
    /\ UNCHANGED <<retryAttempts, retryDelay, sends, batchVars, health, mw, otherVars>>

(* The derived route comes back as the URL of a request that matches no
   framework route, and is normalized again. *)
NormalizeAgain ==
    /\ norm.pc = "once"
    /\ norm' = [norm EXCEPT !.pc = "twice",
                            !.twice = getRoutePattern([url |-> norm.once, routePath |-> <<>>])]
    /\ UNCHANGED <<retryAttempts, retryDelay, sends, batchVars, health, mw, otherVars>>

-----------------------------------------------------------------------------
(* healthCheck: one invocation of the handler it returns *)

MaxProbes == 2         \* most caller-supplied probes explored
MaxAppRetries == 2     \* largest retry ceiling explored under the middleware

NoChecks == [x \in {} |-> 0]

Put(obj, key, v) == [x \in DOMAIN obj \cup {key} |-> IF x = key THEN v ELSE obj[x]]

(* A caller-supplied probe: the function's name ("" for an anonymous
   function) and what calling it does. *)
ProbeNames == {"", "database", "cache"}

ProbeBehaviours == {"healthy", "unhealthy", "nostatus", "undefined", "throws"}

CustomChecks == [name : ProbeNames, does : ProbeBehaviours]

CustomCheckLists == UNION {[1..n -> CustomChecks] : n \in 0..MaxProbes}

HealthIdle ==
    [pc |-> "idle", requireDefined |-> TRUE, api |-> FALSE, customChecks |-> <<>>,
     k |-> 0, status |-> "healthy", checks |-> NoChecks, ran |-> <<>>,
     statusCode |-> 0, error |-> Undef]

(* `health.checks[check.name || 'custom']` *)
CheckKey(check) == IF Truthy(check.name) THEN check.name ELSE "custom"

(* The body of the loop for one probe, after `await check()` has settled. *)
RecordProbe(h, check) ==
    LET key == CheckKey(check)
        h1 == [h EXCEPT !.ran = Append(@, h.k)]
    IN  IF check.does \in {"throws", "undefined"}
        THEN [h1 EXCEPT !.checks = Put(@, key, [status |-> "unhealthy",
                                                error |-> IF check.does = "throws"
                                                          THEN "probe failed"
                                                          ELSE "Cannot read properties of undefined"]),
                        !.status = "degraded"]
        ELSE [h1 EXCEPT !.checks = Put(@, key, [status |-> IF check.does = "unhealthy"
                                                           THEN "unhealthy" ELSE "healthy",
                                                error |-> Undef])]

(* `res.status(statusCode).json(health)` at the end of the try block. *)
Respond(h) ==
    [h EXCEPT !.pc = "done", !.statusCode = IF h.status = "healthy" THEN 200 ELSE 503]

(* The handler runs on to its next await, or to its response. *)
HealthContinue(h) ==
    IF h.k <= Len(h.customChecks)
    THEN [h EXCEPT !.pc = "probe"]
    ELSE IF h.api
    THEN [h EXCEPT !.pc = "ping"]
    ELSE Respond(h)

(* The handler is called: the built-in checks, then the first await.  Where
   `require` is not defined (an ES module build) the built-in memory check
   throws and the outer catch answers. *)
HealthInvoke ==
    /\ health.pc = "start"
    /\ health' =
          IF ~health.requireDefined
          THEN [health EXCEPT !.pc = "done", !.status = "unhealthy",
                              !.error = "require is not defined", !.statusCode = 503]
          ELSE HealthContinue(
                  [health EXCEPT !.k = 1,
                                 !.checks = Put(Put(@, "memory", [status |-> "healthy", error |-> Undef]),
                                                "disk", [status |-> "healthy", error |-> Undef])])
    /\ sends' = IF health'.pc = "ping"
                THEN Append(sends, readOp("healthCheck", retryAttempts, retryDelay))
                ELSE sends
    /\ UNCHANGED <<retryAttempts, retryDelay, batchVars, norm, mw, otherVars>>

(* The awaited probe settles: its entry is written and the loop goes on. *)
ProbeSettles ==
    /\ health.pc = "probe"
    /\ health' = HealthContinue(
                    [RecordProbe(health, health.customChecks[health.k]) EXCEPT !.k = @ + 1])
    /\ sends' = IF health'.pc = "ping"
                THEN Append(sends, readOp("healthCheck", retryAttempts, retryDelay))
                ELSE sends
    /\ UNCHANGED <<retryAttempts, retryDelay, batchVars, norm, mw, otherVars>>

(* `await this.api.healthCheck()` settles. *)
PingSettles ==
    /\ health.pc = "ping"
    /\ Settled(sends[Len(sends)])
    /\ health' =
          Respond(IF sends[Len(sends)].pc = "resolved"
                  THEN [health EXCEPT !.checks = Put(@, "kryosApi", [status |-> "healthy", error |-> Undef])]
                  ELSE [health EXCEPT !.checks = Put(@, "kryosApi", [status |-> "unhealthy",
                                                                     error |-> sends[Len(sends)].reason.prefix]),
                                      !.status = "degraded"])
    /\ UNCHANGED <<retryAttempts, retryDelay, sends, batchVars, norm, mw, otherVars>>

-----------------------------------------------------------------------------
(* MiddlewareModule: requestLogger, metricsCollector, userActivityTracker and
   errorTracker around one request of the host application *)

MaxEndCalls == 2       \* most calls of res.end on the one request
MaxTasks == 2          \* most fire-and-forget sends scheduled

NoSamples == [x \in {} |-> 0]

Inc(metric, labels) ==
    Put(metric, labels, IF labels \in DOMAIN metric THEN metric[labels] + 1 ELSE 1)

Reading(metric, labels) == IF labels \in DOMAIN metric THEN metric[labels] ELSE 0

(* JSON.stringify(req.body) is kept as its length; present is FALSE for a
   request without a body. *)
NoReqBody == [present |-> FALSE, jsonLen |-> 0]

NoReq ==
    [method |-> "", url |-> <<>>, routePath |-> <<>>, statusCode |-> 0, userId |-> "",
     body |-> NoReqBody]

(* The requests explored: one matching no framework route, one matching
   one; an anonymous user and an identified one. *)
Reqs ==
    { [method |-> "GET", url |-> <<"/", "u", "s", "e", "r", "s", "/", "1", "2", "3">>, routePath |-> <<>>,
       statusCode |-> 200, userId |-> "anonymous", body |-> NoReqBody],
      [method |-> "POST", url |-> <<"/", "v", "2">>, routePath |-> <<"/", "u", "s", "e", "r", "s", "/", ":", "i", "d">>,
       statusCode |-> 500, userId |-> "u42", body |-> [present |-> TRUE, jsonLen |-> 1500]] }

(* The errors handed to the error tracker; statusCode 0 and code 0 stand
   for an error without that property. *)
TrackedErrors ==
    { [name |-> "Error", statusCode |-> 500, code |-> 0, message |-> "boom",
       stack |-> "Error: boom at handler"],
      [name |-> "ValidationError", statusCode |-> 0, code |-> 42, message |-> "bad input",
       stack |-> "ValidationError: bad input at validate"],
      [name |-> "TypeError", statusCode |-> 0, code |-> 0, message |-> "",
       stack |-> "TypeError at handler"] }

serviceName == "unknown-service"     \* config.serviceName

(* The middleware the application installs, in app.use order. *)
Stacks ==
    { <<"requestLogger">>, <<"metricsCollector">>,
      <<"requestLogger", "metricsCollector">>,
      <<"metricsCollector", "requestLogger">>,
      <<"requestLogger", "metricsCollector", "userActivityTracker">> }

MwIdle ==
    [pc |-> "idle", viaSdk |-> FALSE,
     monitoring |-> FALSE,         \* this.monitoring is not null
     recordThrows |-> FALSE,       \* its recordHttpRequest throws (init() never ran on it)
     endThrew |-> 0,               \* exceptions that escaped a call of res.end
     api |-> FALSE,                \* this.api is not null
     enableLogging |-> FALSE,      \* this.config.enableLogging
     stack |-> <<>>, req |-> NoReq,
     endChain |-> <<>>,            \* the wrappers around res.end, innermost first
     endCalls |-> 0,               \* calls of res.end by the host
     originalEnd |-> 0,            \* calls of the host's own end
     httpRequestsTotal |-> NoSamples, httpRequestDuration |-> NoSamples,
     userActionsTotal |-> NoSamples, errorsTotal |-> NoSamples,
     immediates |-> <<>>,          \* the setImmediate callbacks not yet run
     tasks |-> <<>>,               \* the fire-and-forget sends started
     warned |-> 0,                 \* console.warn calls of the catch handlers
     unhandled |-> 0,              \* rejections nobody handled
     errorCalls |-> 0,             \* calls of the error tracker
     errors |-> <<>>,              \* the errors it was called with
     nextCalls |-> <<>>]           \* the errors passed to next(error)

(* MiddlewareModule.init(config, monitoring = null, api = null) *)
init(m, enableLogging, monitoring, api) ==
    [m EXCEPT !.enableLogging = enableLogging, !.monitoring = monitoring, !.api = api]

(* The KryosSDK constructor: `middleware.init(this.config)`. *)
KryosSDK(m, enableLogging) ==
    [init(m, enableLogging, FALSE, FALSE) EXCEPT !.viaSdk = TRUE]

Labels(req) == <<req.method, getRoutePattern(req), req.statusCode>>

(* MonitoringModule.recordHttpRequest *)
recordHttpRequest(m, labels) ==
    [m EXCEPT !.httpRequestsTotal = Inc(@, labels),
              !.httpRequestDuration = Inc(@, labels)]

(* The metrics object of metricsCollector, as sendRequestMetrics passes it on. *)
RequestMetrics(req) ==
    [eventType |-> "http_request", method |-> req.method, route |-> getRoutePattern(req),
     statusCode |-> req.statusCode, duration |-> "endTime - startTime",
     timestamp |-> "startTimestamp"]

setImmediate(m, kind, payload) ==
    [m EXCEPT !.immediates = Append(@, [kind |-> kind, payload |-> payload,
                                        endCall |-> m.endCalls])]

RECURSIVE CallEnd(_, _)

(* An exception thrown inside a wrapper leaves every enclosing wrapper and
   the host's call of res.end. *)
Throws(m) == [m EXCEPT !.endThrew = @ + 1]

(* The res.end installed by requestLogger around the end function `inner`. *)
requestLoggerEnd(m, inner) ==
    IF m.monitoring /\ m.recordThrows
    THEN Throws(m)
    ELSE CallEnd(IF m.monitoring THEN recordHttpRequest(m, Labels(m.req)) ELSE m, inner)

(* Mutant: the original end is not called when telemetry is scheduled. *)
metricsCollectorEndHolds(m, inner) ==
    LET m1 == IF m.monitoring THEN recordHttpRequest(m, Labels(m.req)) ELSE m
    IN  IF m1.api /\ m1.enableLogging
        THEN setImmediate(m1, "requestMetrics", RequestMetrics(m1.req))
        ELSE CallEnd(m1, inner)

(* The res.end installed by metricsCollector around the end function `inner`. *)
metricsCollectorEnd(m, inner) ==
    LET m1 == IF m.monitoring THEN recordHttpRequest(m, Labels(m.req)) ELSE m
        m2 == IF m1.api /\ m1.enableLogging
              THEN setImmediate(m1, "requestMetrics", RequestMetrics(m1.req))
              ELSE m1
    IN  IF m.monitoring /\ m.recordThrows
        THEN Throws(m)
        ELSE CallEnd(m2, inner)

(* The end function number i of the chain; number 0 is the host's own. *)
CallEnd(m, i) ==
    IF i = 0
    THEN [m EXCEPT !.originalEnd = @ + 1]
    ELSE IF m.endChain[i] = "requestLogger"
    THEN requestLoggerEnd(m, i - 1)
    ELSE metricsCollectorEnd(m, i - 1)

(* userActivityTracker, for the action extractUserAction derives. *)
userActivityTracker(m) ==
    LET m1 == IF m.monitoring
              THEN [m EXCEPT !.userActionsTotal = Inc(@, <<"action", "guest">>)]
              ELSE m
    IN  IF m1.api /\ m1.req.userId # "anonymous"
        THEN setImmediate(m1, "userActivity",
                          [eventType |-> "user_activity", userId |-> m1.req.userId])
        ELSE m1

(* One middleware of the stack runs on the arriving request. *)
RunMiddleware(m, name) ==
    IF name = "userActivityTracker"
    THEN userActivityTracker(m)
    ELSE [m EXCEPT !.endChain = Append(@, name)]

RECURSIVE RunStack(_, _)
RunStack(m, i) ==
    IF i > Len(m.stack) THEN m ELSE RunStack(RunMiddleware(m, m.stack[i]), i + 1)

(* Mutant: the name is looked at before the status code. *)
getErrorSeverityNameFirst(error) ==
    IF error.name = "ValidationError" THEN "warning"
    ELSE IF error.name = "UnauthorizedError" THEN "warning"
    ELSE IF error.statusCode # 0 /\ error.statusCode >= 500 THEN "critical"
    ELSE IF error.statusCode # 0 /\ error.statusCode >= 400 THEN "warning"
    ELSE "error"

getErrorSeverity(error) ==
    IF error.statusCode # 0 /\ error.statusCode >= 500 THEN "critical"
    ELSE IF error.statusCode # 0 /\ error.statusCode >= 400 THEN "warning"
    ELSE IF error.name = "ValidationError" THEN "warning"
    ELSE IF error.name = "UnauthorizedError" THEN "warning"
    ELSE "error"

(* The fire-and-forget boundary: sendRequestMetrics and sendUserActivity
   catch inside, the error report is caught by `.catch`; each logs a warning. *)
(* Mutant: the failure is rethrown from the catch handler. *)
BoundaryRethrows(m, kind, sd) ==
    IF sd.pc = "rejected" THEN [m EXCEPT !.warned = @ + 1, !.unhandled = @ + 1] ELSE m

Boundary(m, kind, sd) ==
    IF sd.pc = "rejected" THEN [m EXCEPT !.warned = @ + 1] ELSE m

Scheduled(m) == Len(m.immediates) + Len(m.tasks)

(* The request arrives and runs down the middleware stack. *)
Arrive ==
    /\ mw.pc = "ready"
    /\ \E req \in Reqs :
          mw' = RunStack([mw EXCEPT !.pc = "open", !.req = req], 1)
    /\ UNCHANGED <<retryAttempts, retryDelay, sends, batchVars, norm, health, otherVars>>

(* The host calls res.end: the whole chain of wrappers runs. *)
ResEnd ==
    /\ mw.pc = "open"
    /\ mw.endCalls < MaxEndCalls
    /\ Scheduled(mw) < MaxTasks
    /\ mw' = CallEnd([mw EXCEPT !.endCalls = @ + 1], Len(mw.endChain))
    /\ UNCHANGED <<retryAttempts, retryDelay, sends, batchVars, norm, health, otherVars>>

BodyLimit == 1000

(* `req.body ? JSON.stringify(req.body).substring(0, 1000) : null` *)
TruncatedBody(req) ==
    IF req.body.present
    THEN [present |-> TRUE, jsonLen |-> Min(req.body.jsonLen, BodyLimit)]
    ELSE NoReqBody

(* The errorInfo object of errorTracker. *)
ErrorInfo(error, req) ==
    [message |-> error.message,
     stack |-> error.stack,
     code |-> IF error.code # 0 THEN error.code
              ELSE IF error.statusCode # 0 THEN error.statusCode ELSE 500,
     severity |-> getErrorSeverity(error),
     request |-> [method |-> req.method, url |-> req.url, body |-> TruncatedBody(req)],
     service |-> serviceName]

(* Mutant: next(error) is left to the callback of the report and never made. *)
errorTrackerHoldsNext(m, error) ==
    LET errorInfo == ErrorInfo(error, m.req)
        m1 == [m EXCEPT !.errorCalls = @ + 1, !.errors = Append(@, error)]
        m2 == IF m1.monitoring
              THEN [m1 EXCEPT !.errorsTotal =
                      Inc(@, <<IF Truthy(error.name) THEN error.name ELSE "UnknownError",
                               errorInfo.severity>>)]
              ELSE m1
    IN  IF m2.api
        THEN setImmediate(m2, "errorReport", errorInfo)
        ELSE [m2 EXCEPT !.nextCalls = Append(@, error)]

(* The handler errorTracker returns, called with `error`. *)
errorTracker(m, error) ==
    LET errorInfo == ErrorInfo(error, m.req)
        m1 == [m EXCEPT !.errorCalls = @ + 1, !.errors = Append(@, error)]
        m2 == IF m1.monitoring
              THEN [m1 EXCEPT !.errorsTotal =
                      Inc(@, <<IF Truthy(error.name) THEN error.name ELSE "UnknownError",
                               errorInfo.severity>>)]
              ELSE m1
        m3 == IF m2.api THEN setImmediate(m2, "errorReport", errorInfo) ELSE m2
    IN  [m3 EXCEPT !.nextCalls = Append(@, error)]

(* The payload sendError posts: it copies message, stack, code and severity
   out of its argument and adds the service identity of the configuration. *)
sendErrorPayload(errorData) ==
    [type |-> "error_report",
     message |-> errorData.message,
     stack |-> errorData.stack,
     code |-> errorData.code,
     severity |-> IF Truthy(errorData.severity) THEN errorData.severity ELSE "error",
     service |-> serviceName,
     context |-> IF "context" \in DOMAIN errorData THEN errorData.context ELSE NoSamples]

(* The payload sendEvent posts: `{...eventData, timestamp, service}`. *)
sendEventPayload(eventData) == Put(eventData, "service", serviceName)

(* The host hands an error to errorTracker. *)
ErrorTracker ==
    /\ mw.pc = "open"
    /\ mw.errorCalls = 0
    /\ Scheduled(mw) < MaxTasks
    /\ \E error \in TrackedErrors : mw' = errorTracker(mw, error)
    /\ UNCHANGED <<retryAttempts, retryDelay, sends, batchVars, norm, health, otherVars>>

(* The oldest setImmediate callback runs and starts its send. *)
ImmediateFires ==
    /\ mw.immediates # <<>>
    /\ LET cb == Head(mw.immediates)
           sd == IF cb.kind = "errorReport"
                 THEN sendWrapped("sendError", Obj(Undef, Undef, cb.payload.message),
                                  retryAttempts, retryDelay)
                 ELSE sendWrapped("sendEvent", Obj(Undef, Undef, cb.payload.eventType),
                                  retryAttempts, retryDelay)
       IN  /\ sends' = Append(sends, sd)
           /\ mw' = [mw EXCEPT !.immediates = Tail(@),
                               !.tasks = Append(@, [kind |-> cb.kind, payload |-> cb.payload,
                                                    posted |-> IF cb.kind = "errorReport"
                                                               THEN sendErrorPayload(cb.payload)
                                                               ELSE sendEventPayload(cb.payload),
                                                    endCall |-> cb.endCall,
                                                    endedAtStart |-> mw.originalEnd,
                                                    nextAtStart |-> Len(mw.nextCalls),
                                                    send |-> Len(sends) + 1,
                                                    state |-> "awaiting"])]
    /\ UNCHANGED <<retryAttempts, retryDelay, batchVars, norm, health, otherVars>>

(* The send of task t has settled and its promise chain runs. *)
TaskSettles(t) ==
    /\ mw.tasks[t].state = "awaiting"
    /\ Settled(sends[mw.tasks[t].send])
    /\ mw' = [Boundary(mw, mw.tasks[t].kind, sends[mw.tasks[t].send])
                EXCEPT !.tasks[t].state = "done"]
    /\ UNCHANGED <<retryAttempts, retryDelay, sends, batchVars, norm, health, otherVars>>

-----------------------------------------------------------------------------
(* MonitoringModule: periodic sampling *)

MaxCalls == 4          \* most calls of startDefaultCollection and stop together
MaxTicks == 2          \* most sampling ticks explored

(* intervalMs as the caller passes it. *)
Intervals == {5, 10}

MonIdle ==
    [pc |-> "idle",
     defaultMetricsInterval |-> 0,   \* the timer handle; 0 for null
     timers |-> {},                  \* the active setInterval timers
     created |-> 0,                  \* timers created so far
     defaultsRegistered |-> FALSE,   \* collectDefaultMetrics has filled the registry
     reRegisterThrows |-> FALSE,     \* the library rejects a second registration
     warned |-> 0,                   \* console.warn calls
     raised |-> 0,                   \* calls that threw to their caller
     ticks |-> 0,                    \* collectSystemMetrics runs
     calls |-> <<>>,                 \* the calls made, in order
     httpRequestsTotal |-> NoSamples,     \* Counter, by label tuple
     httpRequestDuration |-> NoSamples,   \* Histogram, observations by label tuple
     activeUsersGauge |-> NoSamples,      \* Gauge
     log |-> <<>>,                   \* the recording calls made, in order
     reports |-> <<>>,               \* what was reported back to a caller
     snapshots |-> <<>>]             \* the results of getMetrics, in order

(* Mutant: no test of the handle, every start makes a timer. *)
startDefaultCollectionNoGuard(m, intervalMs) ==
    LET m0 == [m EXCEPT !.calls = Append(@, "start")]
    IN  IF m0.defaultsRegistered /\ m0.reRegisterThrows
        THEN [m0 EXCEPT !.raised = @ + 1]
        ELSE [m0 EXCEPT !.defaultsRegistered = TRUE,
                        !.created = @ + 1,
                        !.timers = @ \cup {[id |-> m0.created + 1, intervalMs |-> intervalMs]},
                        !.defaultMetricsInterval = m0.created + 1]

(* startDefaultCollection(intervalMs).  client.collectDefaultMetrics runs
   before setInterval; called again on the same registry the library either
   registers nothing new or throws, depending on its version. *)
startDefaultCollection(m, intervalMs) ==
    LET m0 == [m EXCEPT !.calls = Append(@, "start")]
    IN  IF m0.defaultMetricsInterval # 0
        THEN [m0 EXCEPT !.warned = @ + 1]
        ELSE IF m0.defaultsRegistered /\ m0.reRegisterThrows
        THEN [m0 EXCEPT !.raised = @ + 1]
        ELSE [m0 EXCEPT !.defaultsRegistered = TRUE,
                        !.created = @ + 1,
                        !.timers = @ \cup {[id |-> m0.created + 1, intervalMs |-> intervalMs]},
                        !.defaultMetricsInterval = m0.created + 1]

(* Mutant: the handle is dropped without clearInterval. *)
stopForgetsClear(m) ==
    LET m0 == [m EXCEPT !.calls = Append(@, "stop")]
    IN  IF m0.defaultMetricsInterval # 0
        THEN [m0 EXCEPT !.defaultMetricsInterval = 0]
        ELSE m0

(* stop(), which KryosSDK.shutdown calls. *)
stop(m) ==
    LET m0 == [m EXCEPT !.calls = Append(@, "stop")]
    IN  IF m0.defaultMetricsInterval # 0
        THEN [m0 EXCEPT !.timers = {t \in @ : t.id # m0.defaultMetricsInterval},
                        !.defaultMetricsInterval = 0]
        ELSE m0

StartDefaultCollection ==
    /\ mon.pc = "sampling"
    /\ Len(mon.calls) < MaxCalls
    /\ \E intervalMs \in Intervals : mon' = startDefaultCollection(mon, intervalMs)
    /\ UNCHANGED <<retryAttempts, retryDelay, sends, batchVars, norm, health, mw, form, sev, conf, tele>>

Stop ==
    /\ mon.pc = "sampling"
    /\ Len(mon.calls) < MaxCalls
    /\ mon' = stop(mon)
    /\ UNCHANGED <<retryAttempts, retryDelay, sends, batchVars, norm, health, mw, form, sev, conf, tele>>

(* An active timer fires: collectSystemMetrics emits 'metricsCollected'. *)
Tick ==
    /\ mon.pc = "sampling"
    /\ mon.ticks < MaxTicks
    /\ \E t \in mon.timers : mon' = [mon EXCEPT !.ticks = @ + 1]
    /\ UNCHANGED <<retryAttempts, retryDelay, sends, batchVars, norm, health, mw, form, sev, conf, tele>>

-----------------------------------------------------------------------------
(* MonitoringModule: recording and reading metrics *)

MaxRecordings == 3     \* most recording calls explored
MaxSnapshots == 1      \* most getMetrics calls explored

(* The names customMetrics holds after init, as far as they are explored,
   and one name it does not hold. *)
RegisteredNames == {"httpRequestsTotal", "httpRequestDuration", "activeUsersGauge"}

MetricNames == RegisteredNames \cup {"ordersPlaced"}

Amounts == {3, 4}

(* Mutant: the sample is overwritten, not added to. *)
AddOverwrites(metric, labels, amount) == Put(metric, labels, amount)

(* Counter.inc(labels, amount) and Gauge.inc(amount) of the metrics library. *)
Add(metric, labels, amount) ==
    Put(metric, labels, Reading(metric, labels) + amount)

(* getMetric(name): `this.customMetrics.get(name)`, undefined for a name
   that was never set. *)
getMetric(m, name) == IF name \in RegisteredNames THEN name ELSE Undef

(* The body customMetrics runs for one [name, value] entry: `metric.inc(value)`
   where the metric has inc, `metric.set(value)` where it has set only, and
   nothing for a histogram or an undefined metric. *)
customMetric(m, name, value) ==
    LET metric == getMetric(m, name)
        m0 == [m EXCEPT !.log = Append(@, [name |-> name, labels |-> <<>>, amount |-> value])]
    IN  IF metric = "httpRequestsTotal"
        THEN [m0 EXCEPT !.httpRequestsTotal = Add(@, <<>>, value)]
        ELSE IF metric = "activeUsersGauge"
        THEN [m0 EXCEPT !.activeUsersGauge = Add(@, <<>>, value)]
        ELSE m0

(* What register.metrics() reads. *)
Exposition(m) ==
    [httpRequestsTotal |-> m.httpRequestsTotal,
     httpRequestDuration |-> m.httpRequestDuration,
     activeUsersGauge |-> m.activeUsersGauge]

(* recordHttpRequest(method, route, statusCode, duration) *)
RecordHttpRequest ==
    /\ mon.pc = "metrics"
    /\ Len(mon.log) < MaxRecordings
    /\ \E req \in Reqs :
          mon' = [recordHttpRequest(mon, Labels(req))
                    EXCEPT !.log = Append(@, [name |-> "httpRequestsTotal",
                                              labels |-> Labels(req), amount |-> 1])]
    /\ UNCHANGED <<retryAttempts, retryDelay, sends, batchVars, norm, health, mw, form, sev, conf, tele>>

(* The customMetrics middleware runs with a metricsFn returning {name: value}. *)
CustomMetrics ==
    /\ mon.pc = "metrics"
    /\ Len(mon.log) < MaxRecordings
    /\ \E name \in MetricNames, value \in Amounts : mon' = customMetric(mon, name, value)
    /\ UNCHANGED <<retryAttempts, retryDelay, sends, batchVars, norm, health, mw, form, sev, conf, tele>>

(* getMetrics() *)
GetMetrics ==
    /\ mon.pc = "metrics"
    /\ Len(mon.snapshots) < MaxSnapshots
    /\ mon' = [mon EXCEPT !.snapshots = Append(@, [at |-> Len(mon.log), text |-> Exposition(mon)])]
    /\ UNCHANGED <<retryAttempts, retryDelay, sends, batchVars, norm, health, mw, form, sev, conf, tele>>

-----------------------------------------------------------------------------
(* flattenAndAddToForm.  A JavaScript value is a node: a number, or an object
   or an array with its own enumerable properties in `kids`, in for-in
   order; the property names of an array are its indices. *)

MaxLeaf == 2           \* largest number used as a scalar leaf

Num(v) == [t |-> "num", v |-> v, kids |-> <<>>]

Node(t, kids) == [t |-> t, v |-> 0, kids |-> kids]

Kid(key, val) == [key |-> key, val |-> val]

IndexNames == <<"0", "1", "2", "3", "4", "5", "6", "7", "8", "9">>

(* The array literal of the members of seq. *)
Arr(seq) == Node("arr", [i \in 1..Len(seq) |-> Kid(IndexNames[i], seq[i])])

Leaves == {Num(v) : v \in 1..MaxLeaf}

(* Values one level deep: leaves, {} and {b: leaf}, arrays of up to two leaves. *)
Shallow ==
    Leaves
        \cup {Node("obj", <<>>)} \cup {Node("obj", <<Kid("b", x)>>) : x \in Leaves}
        \cup {Arr(<<>>)} \cup {Arr(<<x>>) : x \in Leaves}
        \cup {Arr(<<x, y>>) : x \in Leaves, y \in Leaves}

(* Values two levels deep: {b: value} and one-element arrays of shallow values. *)
Values ==
    Shallow
        \cup {Node("obj", <<Kid("b", x)>>) : x \in Shallow}
        \cup {Arr(<<x>>) : x \in Shallow}

(* The payloads explored: objects with the properties a and c, either of which
   may be missing. *)
Payloads ==
    {Node("obj", <<>>)}
        \cup {Node("obj", <<Kid("a", x)>>) : x \in Values}
        \cup {Node("obj", <<Kid("c", y)>>) : y \in Values}
        \cup {Node("obj", <<Kid("a", x), Kid("c", y)>>) : x \in Values, y \in Shallow}

(* String(v) for a number below ten, as form-data appends a number. *)
NumberToString(v) == IndexNames[v + 1]

(* formData.append(formKey, value) *)
Field(formKey, value) == [key |-> formKey, value |-> NumberToString(value.v)]

IsObjectType(value) == value.t \in {"obj", "arr"}     \* typeof value === 'object'

RECURSIVE flattenAndAddToForm(_, _), FlattenFrom(_, _, _), ForEachFrom(_, _, _)

(* The body of the for-in loop for the property number i of obj, and the
   properties after it. *)
FlattenFrom(obj, prefix, i) ==
    IF i > Len(obj.kids) THEN <<>>
    ELSE LET key == obj.kids[i].key
             value == obj.kids[i].val
             formKey == IF prefix # <<>> THEN prefix \o <<".", key>> ELSE <<key>>
             fields == IF value.t = "obj"
                       THEN flattenAndAddToForm(value, formKey)
                       ELSE IF value.t = "arr"
                       THEN ForEachFrom(value, formKey, 1)
                       ELSE <<Field(formKey, value)>>
         IN  fields \o FlattenFrom(obj, prefix, i + 1)

(* value.forEach((item, index) => ...) from item number i on. *)
ForEachFrom(value, formKey, i) ==
    IF i > Len(value.kids) THEN <<>>
    ELSE LET item == value.kids[i].val
             itemKey == formKey \o <<"[", IndexNames[i], "]">>
             fields == IF IsObjectType(item)
                       THEN flattenAndAddToForm(item, itemKey)
                       ELSE <<Field(itemKey, item)>>
         IN  fields \o ForEachFrom(value, formKey, i + 1)

(* The fields appended to the form, in order. *)
flattenAndAddToForm(obj, prefix) == FlattenFrom(obj, prefix, 1)

FormIdle == [pc |-> "idle", data |-> Node("obj", <<>>), fields |-> <<>>]

(* sendWithFiles adds the form fields of its data. *)
AddToForm ==
    /\ form.pc = "start"
    /\ form' = [form EXCEPT !.pc = "done", !.fields = flattenAndAddToForm(form.data, <<>>)]
    /\ UNCHANGED <<retryAttempts, retryDelay, sends, batchVars, norm, health, mw, mon, sev, conf, tele>>

-----------------------------------------------------------------------------
(* getErrorSeverity on its own *)

NoTrackedError == [name |-> "", statusCode |-> 0, code |-> 0, message |-> "", stack |-> ""]

(* error.name; "" for a thrown value without a name. *)
SevNames == {"", "Error", "TypeError", "ValidationError", "UnauthorizedError"}

(* error.statusCode; 0 for an error without one. *)
SevStatusCodes == {0, 200, 399, 400, 404, 499, 500, 503}

SevErrors ==
    [name : SevNames, statusCode : SevStatusCodes, code : {0, 42},
     message : {"boom"}, stack : {"at handler"}]

(* An error is classified. *)
Classify ==
    /\ sev.pc = "start"
    /\ sev' = [sev EXCEPT !.pc = "done", !.severity = getErrorSeverity(sev.error)]
    /\ UNCHANGED <<retryAttempts, retryDelay, sends, batchVars, norm, health, mw, mon, form, conf, tele>>

-----------------------------------------------------------------------------
(* The parts of the SDK a specification leaves alone *)

SevIdle == [pc |-> "idle", error |-> NoTrackedError, severity |-> ""]

-----------------------------------------------------------------------------
(* Config, the module singleton of config.js, and the KryosSDK constructor.
   The environment variables that load() consults are taken to be unset. *)

MaxInits == 2          \* most KryosSDK.init calls explored
MaxUpdates == 1        \* most Config.update calls explored

DefaultTimeout == 30000

DefaultRetryAttempts == 3

DefaultRetryDelay == 1000

Url(scheme, rest) == [scheme |-> scheme, rest |-> rest]

NoUrl == Url("", "")

DefaultBaseUrl == Url("http", "localhost:5000/api")

(* `baseUrl.startsWith('http')` *)
startsWithHttp(url) == url.scheme \in {"http", "https"}

(* `a || b` on numbers: 0 (and an absent option, written 0) is falsy. *)
OrNum(a, b) == IF a # 0 THEN a ELSE b

NoValues ==
    [keyId |-> Undef, keySecret |-> Undef, baseUrl |-> NoUrl, timeout |-> 0,
     retryAttempts |-> 0, retryDelay |-> 0]

NoClient == [baseURL |-> NoUrl, timeout |-> 0]

ConfIdle ==
    [keyId |-> Undef, keySecret |-> Undef, baseUrl |-> DefaultBaseUrl,
     timeout |-> DefaultTimeout,
     calls |-> 0,            \* KryosSDK.init calls made
     sdks |-> 0,             \* SDK objects constructed
     updates |-> 0,          \* Config.update calls made
     registered |-> FALSE,   \* monitoring.init has registered the custom metrics
     httpClient |-> NoClient,
     first |-> NoValues]     \* the values the first SDK saw when it was constructed

(* The fields of the singleton that the claims speak about. *)
TheConfig ==
    [keyId |-> conf.keyId, keySecret |-> conf.keySecret, baseUrl |-> conf.baseUrl,
     timeout |-> conf.timeout, retryAttempts |-> retryAttempts, retryDelay |-> retryDelay]

(* The options passed to KryosSDK.init; an absent option is Undef, NoUrl or 0. *)
InitOptions ==
    [keyId : {Undef, "k1", "k2"}, keySecret : {Undef, "s1"},
     baseUrl : {NoUrl, Url("https", "two.example/api"), Url("ftp", "three.example")},
     timeout : {0, 5000},
     retryAttempts : {-1, 0, 2},
     retryDelay : {0}]

(* Config.load(options) *)
load(cv, options) ==
    [keyId |-> options.keyId,
     keySecret |-> options.keySecret,
     baseUrl |-> IF options.baseUrl # NoUrl THEN options.baseUrl ELSE cv.baseUrl,
     timeout |-> OrNum(options.timeout, cv.timeout),
     retryAttempts |-> OrNum(options.retryAttempts, cv.retryAttempts),
     retryDelay |-> OrNum(options.retryDelay, cv.retryDelay)]

(* Config.isValid() *)
isValid(cv) ==
    /\ Truthy(cv.keyId) /\ Truthy(cv.keySecret)
    /\ cv.baseUrl # NoUrl /\ startsWithHttp(cv.baseUrl)

(* The options passed to Config.update: one key and its value.  "region" is
   not an own property of the singleton. *)
UpdateOptions ==
    [key : {"retryAttempts"}, value : {-1, 0, 1}] \cup
    [key : {"timeout"}, value : {5000}] \cup
    [key : {"region"}, value : {1}]

(* Config.update(options) *)
update(cv, options) ==
    CASE options.key = "retryAttempts" -> [cv EXCEPT !.retryAttempts = options.value]
      [] options.key = "timeout" -> [cv EXCEPT !.timeout = options.value]
      [] OTHER -> cv

StoreConfig(c, cv) ==
    [c EXCEPT !.keyId = cv.keyId, !.keySecret = cv.keySecret,
              !.baseUrl = cv.baseUrl, !.timeout = cv.timeout]

(* `new KryosSDK(options)`.  The options are tested, the singleton is loaded
   and validated, and the modules are initialised on it; on a registry that
   already holds the custom metrics monitoring.init either registers them
   again or throws, depending on the metrics library. *)
KryosSDKInit ==
    /\ conf.calls < MaxInits
    /\ \E options \in InitOptions, registryThrows \in BOOLEAN :
          LET c0 == [conf EXCEPT !.calls = @ + 1]
              cv == load(TheConfig, options)
              c1 == StoreConfig(c0, cv)
          IN  IF ~Truthy(options.keyId) \/ ~Truthy(options.keySecret)
              THEN /\ conf' = c0
                   /\ UNCHANGED <<retryAttempts, retryDelay>>
              ELSE /\ retryAttempts' = cv.retryAttempts
                   /\ retryDelay' = cv.retryDelay
                   /\ IF ~isValid(cv)
                      THEN conf' = c1
                      ELSE IF c1.registered /\ registryThrows
                      THEN conf' = c1
                      ELSE conf' = [c1 EXCEPT
                                      !.registered = TRUE,
                                      !.httpClient = [baseURL |-> cv.baseUrl, timeout |-> cv.timeout],
                                      !.sdks = @ + 1,
                                      !.first = IF c1.sdks = 0 THEN cv ELSE @]
    /\ UNCHANGED <<sends, batchVars, norm, health, mw, mon, form, sev, tele>>

ConfigUpdate ==
    /\ conf.sdks >= 1
    /\ conf.updates < MaxUpdates
    /\ \E options \in UpdateOptions :
          LET cv == update(TheConfig, options)
          IN  /\ retryAttempts' = cv.retryAttempts
              /\ retryDelay' = cv.retryDelay
              /\ conf' = [StoreConfig(conf, cv) EXCEPT !.updates = @ + 1]
    /\ UNCHANGED <<sends, batchVars, norm, health, mw, mon, form, sev, tele>>

(* A read operation of an SDK that has been constructed. *)
SdkSend ==
    /\ conf.sdks >= 1
    /\ ReadOp

-----------------------------------------------------------------------------
(* The external identifiers built by sendMetrics, sendEvent and sendError *)

MaxClock == 1          \* Date.now() takes the values 0..MaxClock
MaxRecords == 2        \* most telemetry sends explored

TeleIdle == [now |-> 0, records |-> <<>>]

TelemetryOps == {"sendMetrics", "sendEvent", "sendError"}

(* The outcomes of `Math.random().toString(36).substr(2, 9)` explored. *)
RandomSuffixes == {"k3x9q1z7b", "4fzzzxjyl"}

(* The externalId of the payload: `metrics_${Date.now()}`, and for events and
   errors `event_${Date.now()}_${random}`, `error_${Date.now()}_${random}`. *)
externalId(op, now, random) ==
    CASE op = "sendMetrics" -> [prefix |-> "metrics", time |-> now, suffix |-> ""]
      [] op = "sendEvent" -> [prefix |-> "event", time |-> now, suffix |-> random]
      [] OTHER -> [prefix |-> "error", time |-> now, suffix |-> random]

(* sendMetrics / sendEvent / sendError: the argument is validated, the payload
   is built with its externalId, and the send enters the retry loop. *)
SendTelemetry ==
    /\ Len(sends) < MaxRecords
    /\ \E op \in TelemetryOps, arg \in FieldInputs, random \in RandomSuffixes :
          LET sd == sendWrapped(op, arg, retryAttempts, retryDelay)
          IN  /\ sends' = Append(sends, sd)
              /\ tele' = IF sd.attempt >= 1
                         THEN [tele EXCEPT !.records =
                                  Append(@, [send |-> Len(sends) + 1, op |-> op,
                                             externalId |-> externalId(op, tele.now, random)])]
                         ELSE tele
    /\ UNCHANGED <<retryAttempts, retryDelay, batchVars, norm, health, mw, mon, form, sev, conf>>

(* The millisecond clock advances. *)
ClockAdvances ==
    /\ tele.now < MaxClock
    /\ tele' = [tele EXCEPT !.now = @ + 1]
    /\ UNCHANGED <<retryAttempts, retryDelay, sends, batchVars, norm, health, mw, mon, form, sev, conf>>

OthersIdle ==
    mon = MonIdle /\ form = FormIdle /\ sev = SevIdle /\ conf = ConfIdle /\ tele = TeleIdle

-----------------------------------------------------------------------------
(* Specification of one logical send *)

BatchIdle ==
    /\ entries = [isArray |-> TRUE, items |-> <<>>]
    /\ bpc = "idle"
    /\ bi = 0
    /\ results = <<>>
    /\ chunks = <<>>
    /\ bError = NoError

Init ==
    /\ retryAttempts \in 1..MaxRetries
    /\ retryDelay \in 1..MaxDelay
    /\ sends = <<>>
    /\ BatchIdle
    /\ norm = NormIdle
    /\ health = HealthIdle
    /\ mw = MwIdle
    /\ OthersIdle

Next ==
    \/ SendUserData
    \/ SendEntryData
    \/ SendWrapped
    \/ ReadOp
    \/ \E s \in 1..Len(sends) : HttpSuccess(s)
    \/ \E s \in 1..Len(sends) : HttpFailure(s)
    \/ \E s \in 1..Len(sends) : TimerFires(s)

Spec == Init /\ [][Next]_vars

(* Specification of one batch send *)

InitBatch ==
    /\ retryAttempts \in 1..MaxBatchRetries
    /\ retryDelay \in 1..MaxDelay
    /\ sends = <<>>
    /\ BatchIdle
    /\ norm = NormIdle
    /\ health = HealthIdle
    /\ mw = MwIdle
    /\ OthersIdle

NextBatch ==
    \/ BatchSendEntries
    \/ BatchChunkSettled
    \/ \E s \in 1..Len(sends) : HttpSuccess(s)
    \/ \E s \in 1..Len(sends) : HttpFailure(s)
    \/ \E s \in 1..Len(sends) : TimerFires(s)

SpecBatch == InitBatch /\ [][NextBatch]_vars

(* Specification of the SDK constructor, Config.update and the sends of a
   constructed SDK *)

InitConfig ==
    /\ retryAttempts = DefaultRetryAttempts
    /\ retryDelay = DefaultRetryDelay
    /\ sends = <<>>
    /\ BatchIdle
    /\ norm = NormIdle
    /\ health = HealthIdle
    /\ mw = MwIdle
    /\ OthersIdle

NextConfig ==
    \/ KryosSDKInit
    \/ ConfigUpdate
    \/ SdkSend
    \/ \E s \in 1..Len(sends) : HttpSuccess(s)
    \/ \E s \in 1..Len(sends) : HttpFailure(s)
    \/ \E s \in 1..Len(sends) : TimerFires(s)

SpecConfig == InitConfig /\ [][NextConfig]_vars

(* Specification of the telemetry sends and the identifiers they build *)

InitIds ==
    /\ retryAttempts \in 1..MaxBatchRetries
    /\ retryDelay = DefaultRetryDelay
    /\ sends = <<>>
    /\ BatchIdle
    /\ norm = NormIdle
    /\ health = HealthIdle
    /\ mw = MwIdle
    /\ OthersIdle

NextIds ==
    \/ SendTelemetry
    \/ ClockAdvances
    \/ \E s \in 1..Len(sends) : HttpSuccess(s)
    \/ \E s \in 1..Len(sends) : HttpFailure(s)
    \/ \E s \in 1..Len(sends) : TimerFires(s)

SpecIds == InitIds /\ [][NextIds]_vars

(* Specification of the transport with its scheduling: a single send or one
   batch send, where every HTTP exchange in flight completes (axios applies
   config.timeout to each request), every backoff timer fires, and the
   continuation of a settled Promise.allSettled runs. *)

NextLive == Next \/ NextBatch

Completes == \E s \in 1..Len(sends) : HttpSuccess(s) \/ HttpFailure(s)

Elapses == \E s \in 1..Len(sends) : TimerFires(s)

Fairness ==
    /\ WF_vars(Completes)
    /\ WF_vars(Elapses)
    /\ WF_vars(BatchChunkSettled)

SpecLive == InitBatch /\ [][NextLive]_vars /\ Fairness

(* Specification of route normalization *)

InitRoute ==
    /\ retryAttempts = 1
    /\ retryDelay = 1
    /\ sends = <<>>
    /\ BatchIdle
    /\ \E url \in Urls, routePath \in RoutePaths :
          norm = [NormIdle EXCEPT !.pc = "start", !.url = url, !.routePath = routePath]
    /\ health = HealthIdle
    /\ mw = MwIdle
    /\ OthersIdle

NextRoute ==
    \/ NormalizeRoute
    \/ NormalizeAgain

SpecRoute == InitRoute /\ [][NextRoute]_vars

(* Specification of one health-check invocation *)

InitHealth ==
    /\ retryAttempts \in 1..MaxAppRetries
    /\ retryDelay = 1
    /\ sends = <<>>
    /\ BatchIdle
    /\ norm = NormIdle
    /\ \E req \in BOOLEAN, api \in BOOLEAN, customChecks \in CustomCheckLists :
          health = [HealthIdle EXCEPT !.pc = "start", !.requireDefined = req,
                                      !.api = api, !.customChecks = customChecks]
    /\ mw = MwIdle
    /\ OthersIdle

NextHealth ==
    \/ HealthInvoke
    \/ ProbeSettles
    \/ PingSettles
    \/ \E s \in 1..Len(sends) : HttpSuccess(s)
    \/ \E s \in 1..Len(sends) : HttpFailure(s)
    \/ \E s \in 1..Len(sends) : TimerFires(s)

SpecHealth == InitHealth /\ [][NextHealth]_vars

(* Specification of the middleware around one request *)

InitMw ==
    /\ retryAttempts \in 1..MaxAppRetries
    /\ retryDelay = 1
    /\ sends = <<>>
    /\ BatchIdle
    /\ norm = NormIdle
    /\ health = HealthIdle
    /\ OthersIdle
    /\ \E stack \in Stacks, enableLogging \in BOOLEAN :
          LET m == [MwIdle EXCEPT !.pc = "ready", !.stack = stack]
          IN  \/ mw = KryosSDK(m, enableLogging)
              \/ \E monitoring \in BOOLEAN, api \in BOOLEAN :
                    mw = init(m, enableLogging, monitoring, api)

NextMw ==
    \/ Arrive
    \/ ResEnd
    \/ ErrorTracker
    \/ ImmediateFires
    \/ \E t \in 1..Len(mw.tasks) : TaskSettles(t)
    \/ \E s \in 1..Len(sends) : HttpSuccess(s)
    \/ \E s \in 1..Len(sends) : HttpFailure(s)
    \/ \E s \in 1..Len(sends) : TimerFires(s)

SpecMw == InitMw /\ [][NextMw]_vars

(* Specification of the res.end wrappers, where the registry handed to
   middleware.init may be one whose recordHttpRequest throws *)

InitEnd ==
    /\ retryAttempts = 1
    /\ retryDelay = 1
    /\ sends = <<>>
    /\ BatchIdle
    /\ norm = NormIdle
    /\ health = HealthIdle
    /\ OthersIdle
    /\ \E stack \in Stacks, enableLogging \in BOOLEAN, api \in BOOLEAN,
          monitoring \in BOOLEAN, recordThrows \in BOOLEAN :
          /\ recordThrows => monitoring
          /\ mw = [init([MwIdle EXCEPT !.pc = "ready", !.stack = stack],
                        enableLogging, monitoring, api)
                     EXCEPT !.recordThrows = recordThrows]

NextEnd ==
    \/ Arrive
    \/ ResEnd
    \/ ImmediateFires
    \/ \E t \in 1..Len(mw.tasks) : TaskSettles(t)
    \/ \E s \in 1..Len(sends) : HttpSuccess(s)
    \/ \E s \in 1..Len(sends) : HttpFailure(s)

SpecEnd == InitEnd /\ [][NextEnd]_vars

(* Specification of periodic sampling *)

InitSampling ==
    /\ conf = ConfIdle
    /\ tele = TeleIdle
    /\ retryAttempts = 1
    /\ retryDelay = 1
    /\ sends = <<>>
    /\ BatchIdle
    /\ norm = NormIdle
    /\ health = HealthIdle
    /\ mw = MwIdle
    /\ form = FormIdle
    /\ sev = SevIdle
    /\ \E reRegisterThrows \in BOOLEAN :
          mon = [MonIdle EXCEPT !.pc = "sampling", !.reRegisterThrows = reRegisterThrows]

NextSampling ==
    \/ StartDefaultCollection
    \/ Stop
    \/ Tick

SpecSampling == InitSampling /\ [][NextSampling]_vars

(* Specification of recording and reading metrics *)

InitMetrics ==
    /\ conf = ConfIdle
    /\ tele = TeleIdle
    /\ retryAttempts = 1
    /\ retryDelay = 1
    /\ sends = <<>>
    /\ BatchIdle
    /\ norm = NormIdle
    /\ health = HealthIdle
    /\ mw = MwIdle
    /\ form = FormIdle
    /\ sev = SevIdle
    /\ mon = [MonIdle EXCEPT !.pc = "metrics"]

NextMetrics ==
    \/ RecordHttpRequest
    \/ CustomMetrics
    \/ GetMetrics

SpecMetrics == InitMetrics /\ [][NextMetrics]_vars

(* Specification of multipart flattening *)

InitForm ==
    /\ conf = ConfIdle
    /\ tele = TeleIdle
    /\ retryAttempts = 1
    /\ retryDelay = 1
    /\ sends = <<>>
    /\ BatchIdle
    /\ norm = NormIdle
    /\ health = HealthIdle
    /\ mw = MwIdle
    /\ mon = MonIdle
    /\ sev = SevIdle
    /\ \E data \in Payloads : form = [FormIdle EXCEPT !.pc = "start", !.data = data]

NextForm == AddToForm

SpecForm == InitForm /\ [][NextForm]_vars

(* Specification of the severity classification *)

InitSeverity ==
    /\ conf = ConfIdle
    /\ tele = TeleIdle
    /\ retryAttempts = 1
    /\ retryDelay = 1
    /\ sends = <<>>
    /\ BatchIdle
    /\ norm = NormIdle
    /\ health = HealthIdle
    /\ mw = MwIdle
    /\ mon = MonIdle
    /\ form = FormIdle
    /\ \E error \in SevErrors : sev = [SevIdle EXCEPT !.pc = "start", !.error = error]

NextSeverity == Classify

SpecSeverity == InitSeverity /\ [][NextSeverity]_vars

-----------------------------------------------------------------------------
(* Properties of the retry policy (checked under Spec) *)

(* The errors an attempt of a send can be caught with, tagged with the
   exchange id. *)
AttemptErrors(id) ==
    {formatError(e, id) : e \in AxiosErrors} \cup {FileNotFound(p, id) : p \in Paths}

Classifications == {"API Error", "Network Error", "Request Error"}

(* C1: for every operation run through the retry policy with ceiling N >= 1
   and base delay D, the k-th sleep lasts D * k, a sleep follows every failed
   attempt but the N-th, and a send all of whose attempts failed made exactly
   N attempts and N - 1 sleeps. *)
C1_ExhaustedRetries ==
    \A s \in 1..Len(sends) :
        LET sd == sends[s]
        IN  (sd.attempt >= 1 /\ sd.retries >= 1) =>
              /\ sd.attempts <= sd.retries
              /\ \A k \in 1..Len(sd.sleeps) : sd.sleeps[k] = retryDelay * k
              /\ (sd.pc = "request") => (sd.failed = sd.attempts - 1 /\ Len(sd.sleeps) = sd.failed)
              /\ (sd.pc = "sleep") =>
                    (sd.failed = sd.attempts /\ Len(sd.sleeps) = sd.failed /\ sd.attempts < sd.retries)
              /\ (Settled(sd) /\ sd.failed = sd.attempts) =>
                    (sd.attempts = sd.retries /\ Len(sd.sleeps) = sd.retries - 1)

C1_Witness ==
    \E s \in 1..Len(sends) :
        /\ sends[s].op = "healthCheck"
        /\ sends[s].pc = "rejected"
        /\ sends[s].retries >= 3
        /\ sends[s].http = sends[s].retries
        /\ sends[s].failed = sends[s].retries

(* C2: if attempt k is the first to succeed, exactly k attempts and k - 1
   sleeps were made, the send resolves with the body of the k-th response,
   and a resolved send never changes again. *)
C2_FirstSuccess ==
    /\ [](\A s \in 1..Len(sends) :
            LET sd == sends[s]
            IN  (sd.pc = "resolved" /\ sd.retries >= 1) =>
                  /\ sd.attempts = sd.attempt
                  /\ sd.attempts <= sd.retries
                  /\ sd.failed = sd.attempts - 1
                  /\ Len(sd.sleeps) = sd.attempts - 1
                  /\ sd.value = [data |-> "body", id |-> sd.attempts])
    /\ [][\A s \in 1..Len(sends) : sends[s].pc = "resolved" => sends'[s] = sends[s]]_vars

C2_Witness ==
    \E s \in 1..Len(sends) :
        /\ sends[s].pc = "resolved"
        /\ sends[s].attempts = 2
        /\ sends[s].retries = 3
        /\ sends[s].value.id = 2

(* C3: when all N attempts of a send have failed, the send is rejected with
   the error the N-th attempt was caught with, and has no value. *)
C3_ErrorRaised ==
    \A s \in 1..Len(sends) :
        LET sd == sends[s]
        IN  (sd.retries >= 1 /\ sd.failed = sd.retries) =>
              /\ sd.pc = "rejected"
              /\ sd.value = NoBody
              /\ sd.reason \in AttemptErrors(sd.retries)

C3_Witness ==
    \E s \in 1..Len(sends) :
        /\ sends[s].retries >= 2
        /\ sends[s].failed = sends[s].retries
        /\ sends[s].reason.prefix = "Network Error"

(* C4: sendUserData with an absent record or without externalId is rejected
   with the validation error, with no HTTP call, no attempt and no sleep. *)
C4_UserDataValidation ==
    \A s \in 1..Len(sends) :
        LET sd == sends[s]
        IN  (sd.op = "sendUserData" /\ (sd.arg.isNull \/ ~Truthy(sd.arg.externalId))) =>
              /\ sd.pc = "rejected"
              /\ sd.reason = ValidationError("User data must include externalId")
              /\ sd.http = 0
              /\ sd.attempts = 0
              /\ sd.sleeps = <<>>

C4_Witness ==
    \E s \in 1..Len(sends) :
        /\ sends[s].op = "sendUserData"
        /\ ~sends[s].arg.isNull
        /\ sends[s].arg.externalId = Undef
        /\ Len(sends[s].files) = 2
        /\ retryAttempts = 3
        /\ sends[s].pc = "rejected"

(* C5: sendEntryData with a dataType outside the enumerated set makes no
   HTTP call. *)
C5_DataTypeValidated ==
    \A s \in 1..Len(sends) :
        LET sd == sends[s]
        IN  (sd.op = "sendEntryData" /\ ~sd.arg.isNull /\ sd.arg.dataType \notin validDataTypes) =>
              (sd.pc = "rejected" /\ sd.http = 0)

(* C9: a send with a file list holding a path that is not an existing
   regular file makes no HTTP call. *)
C9_BadFileNoRequest ==
    \A s \in 1..Len(sends) :
        LET sd == sends[s]
        IN  (\E k \in 1..Len(sd.files) : FsKind(sd.files[k]) # "file") => sd.http = 0

(* C10: every error a send is rejected with after a failed attempt carries
   one of the three classifications. *)
C10_Classified ==
    \A s \in 1..Len(sends) :
        LET sd == sends[s]
        IN  (sd.pc = "rejected" /\ sd.failed >= 1) => sd.reason.prefix \in Classifications

-----------------------------------------------------------------------------
(* Properties of batchSendEntries (checked under SpecBatch) *)

(* C6: a batch of n >= 1 records is processed in ceil(n / 10) chunks of at
   most 10 records and returns n outcomes, outcome i being the outcome of
   the send of record i. *)
C6_BatchOrder ==
    (bpc = "resolved") =>
        LET n == Len(entries.items)
        IN  /\ n >= 1
            /\ Len(results) = n
            /\ Len(sends) = n
            /\ Len(chunks) = (n + batchSize - 1) \div batchSize
            /\ \A c \in 1..Len(chunks) : chunks[c] >= 1 /\ chunks[c] <= batchSize
            /\ \A i \in 1..n :
                  /\ sends[i].arg = entries.items[i]
                  /\ sends[i].arg.field = i
                  /\ results[i].value = sends[i].value
                  /\ results[i].reason = sends[i].reason

C6_Witness ==
    /\ bpc = "resolved"
    /\ Len(results) > batchSize
    /\ Len(chunks) = 2
    /\ \E i \in 1..Len(results) : i < Len(results) /\ results[i].status = "fulfilled"

(* C7: every member of every chunk is sent whatever happened to the others,
   and outcome i is fulfilled exactly when send i resolved and otherwise is
   rejected with the error of send i. *)
C7_IndependentOutcomes ==
    /\ (bpc = "awaiting") =>
          /\ Len(sends) = Min(bi + batchSize, Len(entries.items))
          /\ \A j \in 1..Len(sends) : sends[j].pc # "new"
    /\ (bpc = "resolved") =>
          /\ Len(sends) = Len(entries.items)
          /\ \A i \in 1..Len(sends) :
                /\ Settled(sends[i])
                /\ Truthy(sends[i].arg.externalId) => sends[i].http >= 1
                /\ (results[i].status = "fulfilled") <=> (sends[i].pc = "resolved")
                /\ (results[i].status = "rejected") <=> (sends[i].pc = "rejected")
                /\ (sends[i].pc = "rejected") => results[i].reason = sends[i].reason

C7_Witness ==
    /\ bpc = "resolved"
    /\ \E i, j, k \in 1..Len(results) :
          /\ i < j /\ j <= batchSize /\ k > batchSize
          /\ sends[i].failed = sends[i].retries /\ sends[i].http = 2
          /\ results[i].status = "rejected"
          /\ results[j].status = "fulfilled"
          /\ results[k].status = "rejected" /\ sends[k].http = 0

(* C8, as stated: batchSendEntries never rejects, whatever the input
   sequence. *)
C8_NeverRejects ==
    entries.isArray => bpc # "rejected"

(* C8, amended: for a non-empty input sequence batchSendEntries never
   rejects; every failure is a rejected outcome at the member's position. *)
C8_NonEmptyNeverRejects ==
    (entries.isArray /\ Len(entries.items) >= 1) =>
        /\ bpc # "rejected"
        /\ bError = NoError
        /\ (bpc = "resolved") =>
              \A i \in 1..Len(sends) :
                  (sends[i].pc = "rejected") => results[i].status = "rejected"

C8_Witness ==
    /\ bpc = "resolved"
    /\ Len(results) = 1
    /\ results[1].status = "rejected"

-----------------------------------------------------------------------------
(* Properties of the request middleware (checked under SpecMw) *)

Total(metric) ==
    LET RECURSIVE Sum(_)
        Sum(keys) == IF keys = {} THEN 0
                     ELSE LET k == CHOOSE x \in keys : TRUE
                          IN  metric[k] + Sum(keys \ {k})
    IN  Sum(DOMAIN metric)

RequestTasks(m) ==
    {t \in 1..Len(m.tasks) : m.tasks[t].kind = "requestMetrics"}

RequestCallbacks(m) ==
    {i \in 1..Len(m.immediates) : m.immediates[i].kind = "requestMetrics"}

(* C11: a signal of response completion after the first one records no
   metrics and schedules no telemetry. *)
C11_OnlyFirstSignal ==
    [][(mw.endCalls >= 1 /\ mw'.endCalls = mw.endCalls + 1)
          => /\ mw'.httpRequestsTotal = mw.httpRequestsTotal
             /\ mw'.httpRequestDuration = mw.httpRequestDuration
             /\ mw'.immediates = mw.immediates]_vars

(* C12: with requestLogger and metricsCollector both installed on one
   monitoring registry, a request that completed once has raised the counter
   of its labels by exactly 1 and added exactly 1 duration observation. *)
C12_ObservedOnce ==
    (/\ mw.monitoring
     /\ \E i, j \in 1..Len(mw.stack) :
           mw.stack[i] = "requestLogger" /\ mw.stack[j] = "metricsCollector"
     /\ mw.endCalls = 1)
        => /\ Reading(mw.httpRequestsTotal, Labels(mw.req)) = 1
           /\ Reading(mw.httpRequestDuration, Labels(mw.req)) = 1

(* C13: for an SDK built by KryosSDK.init, a request that completed through
   the request logger or the metrics middleware is counted and its duration
   observed in the monitoring registry. *)
C13_SdkRecords ==
    (mw.viaSdk /\ mw.endCalls >= 1)
        => /\ Reading(mw.httpRequestsTotal, Labels(mw.req)) >= 1
           /\ Reading(mw.httpRequestDuration, Labels(mw.req)) >= 1

(* C14: with a transport configured, every completion through the metrics
   collector schedules exactly one event send carrying method, route, status,
   duration and timestamp, whatever the other configuration flags are. *)
C14_OneSendPerCompletion ==
    (mw.api /\ \E i \in 1..Len(mw.stack) : mw.stack[i] = "metricsCollector")
        => \A c \in 1..mw.endCalls :
              \/ Cardinality({i \in RequestCallbacks(mw) :
                                 /\ mw.immediates[i].endCall = c
                                 /\ mw.immediates[i].payload = RequestMetrics(mw.req)}) = 1
              \/ Cardinality({t \in RequestTasks(mw) :
                                 /\ mw.tasks[t].endCall = c
                                 /\ mw.tasks[t].payload = RequestMetrics(mw.req)}) = 1

RejectedTasks(m) ==
    {t \in 1..Len(m.tasks) : m.tasks[t].state = "done" /\ sends[m.tasks[t].send].pc = "rejected"}

(* C15: a failed fire-and-forget send of the middleware is caught and logged
   where it was started: no rejection stays unhandled, each failure is logged
   once, every response end reached the host and every tracked error was
   passed on unchanged. *)
C15_FailureContained ==
    /\ mw.unhandled = 0
    /\ mw.warned = Cardinality(RejectedTasks(mw))
    /\ mw.originalEnd = mw.endCalls
    /\ Len(mw.nextCalls) = mw.errorCalls
    /\ \A i \in 1..Len(mw.nextCalls) : mw.nextCalls[i] \in TrackedErrors

C15_Witness ==
    /\ \E t \in RejectedTasks(mw) :
          /\ mw.tasks[t].kind = "errorReport"
          /\ sends[mw.tasks[t].send].reason = ValidationError("Error data must include message")
    /\ \E t \in RejectedTasks(mw) :
          /\ mw.tasks[t].kind = "requestMetrics"
          /\ sends[mw.tasks[t].send].failed = sends[mw.tasks[t].send].retries
          /\ sends[mw.tasks[t].send].failed >= 2

(* C16: the host's response end has been invoked for every signalled
   completion, and was invoked before the event send scheduled by that
   completion started, whether or not the send ever settles. *)
C16_EndBeforeSend ==
    /\ mw.originalEnd = mw.endCalls
    /\ \A t \in RequestTasks(mw) : mw.tasks[t].endedAtStart >= mw.tasks[t].endCall
    /\ \A i \in RequestCallbacks(mw) : mw.originalEnd >= mw.immediates[i].endCall

C16_Witness ==
    \E t \in RequestTasks(mw) :
        /\ mw.tasks[t].state = "awaiting"
        /\ sends[mw.tasks[t].send].pc = "request"
        /\ sends[mw.tasks[t].send].attempt = 1
        /\ mw.originalEnd = mw.tasks[t].endCall

-----------------------------------------------------------------------------
(* Properties of route normalization (checked under SpecRoute) *)

(* The segments of a path: the runs of characters between slashes. *)
RECURSIVE Split(_)
Split(s) ==
    IF s = <<>> THEN <<>>
    ELSE LET rest == Tail(s)
             n == IF \E k \in 1..Len(rest) : rest[k] = "/"
                  THEN (CHOOSE k \in 1..Len(rest) :
                            rest[k] = "/" /\ \A j \in 1..(k - 1) : rest[j] # "/") - 1
                  ELSE Len(rest)
         IN  <<SubSeq(rest, 1, n)>> \o Split(SubSeq(rest, n + 1, Len(rest)))

IsNumericSegment(seg) == seg # <<>> /\ \A k \in 1..Len(seg) : seg[k] \in Digits

IsUuidSegment(seg) == Len(seg) = 36 /\ \A k \in 1..36 : seg[k] \in UuidChars

(* C17, as stated: with or without a framework route pattern, normalizing
   the derived route again returns it unchanged. *)
C17_Idempotent ==
    (norm.pc = "twice") => norm.twice = norm.once

(* C17, amended: for a request without a framework route pattern,
   normalizing the derived route again returns it unchanged. *)
C17_FallbackIdempotent ==
    (norm.pc = "twice" /\ norm.routePath = <<>>) => norm.twice = norm.once

C17_Witness ==
    /\ norm.pc = "twice"
    /\ norm.routePath = <<>>
    /\ norm.url = JoinPath(<<SegNumeric, SegNumeric>>)
    /\ norm.once = <<"/", ":", "i", "d", "/", ":", "i", "d">>

(* C18: without a framework route pattern every purely numeric segment
   becomes :id, every segment that is neither purely numeric nor a
   36-character hyphenated hex string is unchanged, and the query string is
   removed. *)
C18_NumericSegments ==
    (norm.pc = "once" /\ norm.routePath = <<>>) =>
        LET in == Split(StripQuery(norm.url))
            out == Split(norm.once)
        IN  /\ \A k \in 1..Len(norm.once) : norm.once[k] # "?"
            /\ Len(out) = Len(in)
            /\ \A i \in 1..Len(in) :
                  /\ IsNumericSegment(in[i]) => out[i] = <<":", "i", "d">>
                  /\ (~IsNumericSegment(in[i]) /\ ~IsUuidSegment(in[i])) => out[i] = in[i]

(* C19: without a framework route pattern every segment that is a
   36-character hyphenated hex string becomes :uuid. *)
C19_UuidSegments ==
    (norm.pc = "once" /\ norm.routePath = <<>>) =>
        LET in == Split(StripQuery(norm.url))
            out == Split(norm.once)
        IN  /\ Len(out) = Len(in)
            /\ \A i \in 1..Len(in) :
                  IsUuidSegment(in[i]) => out[i] = <<":", "u", "u", "i", "d">>

-----------------------------------------------------------------------------
(* Properties of the health check (checked under SpecHealth) *)

(* C20: if a probe that ran returned an unhealthy status or threw, or the
   transport ping failed, the overall status of the report is degraded. *)
C20_UnhealthyDegrades ==
    (health.pc = "done") =>
        ((\/ \E i \in 1..Len(health.ran) :
                health.customChecks[health.ran[i]].does \in {"unhealthy", "throws"}
          \/ (health.api /\ sends # <<>> /\ sends[Len(sends)].pc = "rejected"))
            => health.status = "degraded")

ProbeEntries(h) == DOMAIN h.checks \ {"memory", "disk", "kryosApi"}

PingSucceeded(h) == h.api => (sends # <<>> /\ sends[Len(sends)].pc = "resolved")

(* C21: when every caller-supplied probe reports healthy and the transport
   ping, where a transport is wired, succeeds, the report's overall status is
   healthy and the answer carries status code 200. *)
C21_AllHealthy ==
    (/\ health.pc = "done"
     /\ \A i \in 1..Len(health.customChecks) : health.customChecks[i].does = "healthy"
     /\ PingSucceeded(health))
        => (health.status = "healthy" /\ health.statusCode = 200)

(* C22: once the built-in checks have passed, the report holds one entry per
   caller-supplied probe, each showing that probe's own outcome; every probe
   has run and, where a transport is wired, so has the ping. *)
C22_SeparateEntries ==
    (health.pc = "done" /\ health.requireDefined)
        => /\ Len(health.ran) = Len(health.customChecks)
           /\ Cardinality(ProbeEntries(health)) = Len(health.customChecks)
           /\ \A i \in 1..Len(health.customChecks) :
                 /\ CheckKey(health.customChecks[i]) \in DOMAIN health.checks
                 /\ health.checks[CheckKey(health.customChecks[i])].status =
                       (IF health.customChecks[i].does \in {"healthy", "nostatus"}
                        THEN "healthy" ELSE "unhealthy")
           /\ health.api => "kryosApi" \in DOMAIN health.checks

-----------------------------------------------------------------------------
(* Properties of error tracking (checked under SpecSeverity and SpecMw) *)

(* C23: an error with status code 500 or more is classified critical; one
   with status code 400..499, or named ValidationError or UnauthorizedError,
   is classified warning; every other error is classified error. *)
C23_Severity ==
    (sev.pc = "done")
        => sev.severity =
              (IF sev.error.statusCode >= 500 THEN "critical"
               ELSE IF \/ sev.error.statusCode \in 400..499
                       \/ sev.error.name \in {"ValidationError", "UnauthorizedError"}
                    THEN "warning"
                    ELSE "error")

C23_Witness ==
    /\ sev.pc = "done"
    /\ sev.error.name = "ValidationError"
    /\ sev.error.statusCode = 503
    /\ sev.severity = "critical"

ErrorTasks(m) == {t \in 1..Len(m.tasks) : m.tasks[t].kind = "errorReport"}

ErrorLabels(error) ==
    <<IF error.name = "" THEN "UnknownError" ELSE error.name, getErrorSeverity(error)>>

PassedOnBeforeReport(m) ==
    /\ m.nextCalls = m.errors
    /\ Len(m.errors) = m.errorCalls
    /\ \A t \in ErrorTasks(m) : m.tasks[t].nextAtStart = Len(m.errors)

(* C24: the error tracker passes the error it was given to the next handler
   exactly once, counts it under {type, severity}, and has done both before
   the send of the error report starts. *)
C24_TrackedOnce ==
    /\ PassedOnBeforeReport(mw)
    /\ \A i \in 1..Len(mw.errors) :
          Reading(mw.errorsTotal, ErrorLabels(mw.errors[i])) = 1

(* C24 as amended: the count is kept where a monitoring registry is attached
   to the middleware module. *)
C24_TrackedOnceWithRegistry ==
    /\ PassedOnBeforeReport(mw)
    /\ \A i \in 1..Len(mw.errors) :
          Reading(mw.errorsTotal, ErrorLabels(mw.errors[i])) = (IF mw.monitoring THEN 1 ELSE 0)

C24_Witness ==
    /\ mw.monitoring
    /\ mw.nextCalls # <<>>
    /\ Reading(mw.errorsTotal, ErrorLabels(mw.errors[1])) = 1
    /\ \E t \in ErrorTasks(mw) :
          /\ mw.tasks[t].state = "awaiting"
          /\ sends[mw.tasks[t].send].pc = "request"

(* C25: the error report posted to the remote endpoint carries the error's
   message, stack, code and severity, the request body cut to at most 1000
   characters, and the service identity. *)
C25_ReportContents ==
    \A t \in ErrorTasks(mw) :
        (sends[mw.tasks[t].send].http >= 1)
            => LET posted == mw.tasks[t].posted
                   error == mw.errors[1]
               IN  /\ posted.message = error.message
                   /\ posted.stack = error.stack
                   /\ posted.code = ErrorInfo(error, mw.req).code
                   /\ posted.severity = getErrorSeverity(error)
                   /\ posted.service = serviceName
                   /\ "request" \in DOMAIN posted
                   /\ posted.request.body = TruncatedBody(mw.req)
                   /\ posted.request.body.jsonLen <= BodyLimit

-----------------------------------------------------------------------------
(* Properties of periodic sampling (checked under SpecSampling) *)

IsCall(op) == Len(mon'.calls) = Len(mon.calls) + 1 /\ mon'.calls[Len(mon'.calls)] = op

(* C26: at most one sampling timer is ever active, and a start issued while
   a timer is active only logs a warning: nothing is raised, and the timer
   and its interval stay as they were. *)
C26_OneTimer ==
    [][/\ Cardinality(mon'.timers) <= 1
       /\ (IsCall("start") /\ mon.timers # {})
             => /\ mon'.timers = mon.timers
                /\ mon'.defaultMetricsInterval = mon.defaultMetricsInterval
                /\ mon'.warned = mon.warned + 1
                /\ mon'.raised = mon.raised]_vars

C26_Witness ==
    /\ Len(mon.calls) = 4
    /\ mon.calls[1] = "start" /\ mon.calls[2] = "stop"
    /\ mon.calls[3] = "start" /\ mon.calls[4] = "start"
    /\ Cardinality(mon.timers) = 1
    /\ mon.warned = 1

(* C27: after stop no sampling timer is active, a tick fires only while a
   timer started since the last stop is active, and a stop issued when no
   timer is running changes nothing. *)
C27_StopIdempotent ==
    [][/\ IsCall("stop")
             => /\ mon'.timers = {}
                /\ mon'.defaultMetricsInterval = 0
                /\ (mon.timers = {})
                      => mon' = [mon EXCEPT !.calls = Append(@, "stop")]
       /\ (mon'.ticks # mon.ticks)
             => /\ mon.timers # {}
                /\ mon.calls # <<>>
                /\ mon.calls[Len(mon.calls)] = "start"]_vars

C27_Witness ==
    /\ Len(mon.calls) = 3
    /\ mon.calls[1] = "start" /\ mon.calls[2] = "stop" /\ mon.calls[3] = "stop"
    /\ mon.ticks >= 1
    /\ mon.timers = {}

-----------------------------------------------------------------------------
(* Properties of recording and reading metrics (checked under SpecMetrics) *)

Readings(m) == <<m.httpRequestsTotal, m.httpRequestDuration, m.activeUsersGauge>>

(* C28: a recording against a name that is not registered changes no metric
   and is reported back as "metric not found", without raising. *)
C28_NotFoundReported ==
    [][(/\ Len(mon'.log) = Len(mon.log) + 1
        /\ mon'.log[Len(mon'.log)].name \notin RegisteredNames)
          => /\ Readings(mon') = Readings(mon)
             /\ mon'.raised = mon.raised
             /\ mon'.reports = Append(mon.reports, "metric not found")]_vars

RECURSIVE Recorded(_, _, _, _)
Recorded(log, name, labels, n) ==
    IF n = 0 THEN 0
    ELSE Recorded(log, name, labels, n - 1)
            + (IF log[n].name = name /\ log[n].labels = labels THEN log[n].amount ELSE 0)

LabelTuples == {<<>>} \cup {Labels(req) : req \in Reqs}

(* C29: the reading of the request counter under a label tuple is the sum of
   the amounts recorded under exactly that tuple, and the result of
   getMetrics shows every recording made before the call. *)
C29_PerTupleSums ==
    /\ \A labels \in LabelTuples :
          Reading(mon.httpRequestsTotal, labels)
             = Recorded(mon.log, "httpRequestsTotal", labels, Len(mon.log))
    /\ DOMAIN mon.httpRequestsTotal \subseteq LabelTuples
    /\ \A i \in 1..Len(mon.snapshots) :
          \A labels \in LabelTuples :
              Reading(mon.snapshots[i].text.httpRequestsTotal, labels)
                 = Recorded(mon.log, "httpRequestsTotal", labels, mon.snapshots[i].at)

C29_Witness ==
    /\ Len(mon.log) = 3
    /\ mon.log[1].amount = 3 /\ mon.log[1].name = "httpRequestsTotal"
    /\ mon.log[2].amount = 1
    /\ mon.log[3].amount = 4 /\ mon.log[3].name = "httpRequestsTotal"
    /\ Reading(mon.httpRequestsTotal, <<>>) = 7
    /\ Len(mon.snapshots) = 1
    /\ mon.snapshots[1].at = 3
    /\ Reading(mon.snapshots[1].text.httpRequestsTotal, <<>>) = 7

-----------------------------------------------------------------------------
(* Properties of multipart flattening (checked under SpecForm) *)

RECURSIVE LeafFields(_, _), LeafFieldsFrom(_, _, _)

(* One field per scalar leaf of value, in document order, keyed by the path
   of the leaf: `.name` for a property below the top, `[index]` for an item. *)
LeafFields(value, path) ==
    IF value.t = "num" THEN <<Field(path, value)>> ELSE LeafFieldsFrom(value, path, 1)

LeafFieldsFrom(value, path, i) ==
    IF i > Len(value.kids) THEN <<>>
    ELSE LET key == value.kids[i].key
             kidPath == IF value.t = "arr" THEN path \o <<"[", key, "]">>
                        ELSE IF path = <<>> THEN <<key>>
                        ELSE path \o <<".", key>>
         IN  LeafFields(value.kids[i].val, kidPath) \o LeafFieldsFrom(value, path, i + 1)

RECURSIVE StepsFrom(_, _)

(* The steps of a field key from position i on: ".name" or "[index]". *)
StepsFrom(key, i) ==
    IF i > Len(key) THEN <<>>
    ELSE IF key[i] = "."
    THEN <<[kind |-> "key", name |-> key[i + 1]]>> \o StepsFrom(key, i + 2)
    ELSE <<[kind |-> "idx", name |-> key[i + 1]]>> \o StepsFrom(key, i + 3)

Steps(key) == <<[kind |-> "key", name |-> key[1]]>> \o StepsFrom(key, 2)

StringToNumber(str) == CHOOSE v \in 0..9 : IndexNames[v + 1] = str

RECURSIVE Ascending(_)
Ascending(S) ==
    IF S = {} THEN <<>>
    ELSE LET least == CHOOSE x \in S : \A y \in S : x <= y
         IN  <<least>> \o Ascending(S \ {least})

RECURSIVE Build(_)

(* The value that the items, each a remaining path and a field value,
   describe: a leaf for an exhausted path, else an array or an object with
   one member per distinct first step, in order of first appearance. *)
Build(items) ==
    IF items[1].steps = <<>>
    THEN Num(StringToNumber(items[1].value))
    ELSE LET name(i) == items[i].steps[1].name
             firsts == Ascending({i \in 1..Len(items) : \A j \in 1..(i - 1) : name(j) # name(i)})
             below(i) == SelectSeq(items, LAMBDA e : e.steps # <<>> /\ e.steps[1].name = name(i))
             rest(i) == [k \in 1..Len(below(i)) |->
                            [steps |-> Tail(below(i)[k].steps), value |-> below(i)[k].value]]
         IN  Node(IF items[1].steps[1].kind = "idx" THEN "arr" ELSE "obj",
                  [n \in 1..Len(firsts) |-> Kid(name(firsts[n]), Build(rest(firsts[n])))])

(* Re-nesting the fields of a form by key path. *)
Renest(fields) ==
    IF fields = <<>> THEN Node("obj", <<>>)
    ELSE Build([k \in 1..Len(fields) |->
                   [steps |-> Steps(fields[k].key), value |-> fields[k].value]])

(* C30: flattenAndAddToForm emits one field per scalar leaf, keyed by the
   dotted / bracket-indexed path of the leaf, and re-nesting the fields by
   key path gives back the payload. *)
C30_RoundTrip ==
    (form.pc = "done")
        => /\ form.fields = LeafFields(form.data, <<>>)
           /\ Renest(form.fields) = form.data

-----------------------------------------------------------------------------
(* Properties of the retry loop under concurrency and of termination *)

(* C33: within one logical send the attempts are strictly sequential: a step
   starts at most one attempt, no attempt starts while an HTTP exchange of
   the send is in flight, and attempt k+1 starts only from the backoff sleep
   that followed the failure of attempt k, a sleep of delay * k that has
   elapsed. *)
C33_Sequential ==
    [][\A s \in 1..Len(sends) :
          (s <= Len(sends') /\ sends'[s].attempts > sends[s].attempts) =>
             /\ sends'[s].attempts = sends[s].attempts + 1
             /\ sends'[s].http <= sends[s].http + 1
             /\ sends[s].pc = "sleep"
             /\ sends[s].failed = sends[s].attempts
             /\ Len(sends[s].sleeps) = sends[s].attempts
             /\ sends[s].sleeps[sends[s].attempts] = sends[s].delay * sends[s].attempts]_vars

C33_Witness ==
    \E s \in 1..Len(sends) :
        /\ sends[s].pc = "request"
        /\ sends[s].attempt = 3
        /\ sends[s].http = 3
        /\ sends[s].failed = 2
        /\ sends[s].sleeps = <<retryDelay, retryDelay * 2>>

(* C34: sends in flight together keep their own retry state.  In every
   interleaving each send that entered the retry loop has the ceiling N of
   the configuration, makes at most N attempts, has slept delay * k after its
   own k-th failure and nothing else, is rejected only after N failures of
   its own, and a step of one send leaves every other send as it was. *)
C34_IndependentRetryState ==
    /\ [](\A s \in 1..Len(sends) :
            LET sd == sends[s]
            IN  sd.attempt >= 1 =>
                  /\ sd.retries = retryAttempts
                  /\ sd.attempts <= retryAttempts
                  /\ sd.attempts = sd.failed + (IF sd.pc \in {"request", "resolved"} THEN 1 ELSE 0)
                  /\ sd.sleeps = [k \in 1..(IF sd.pc = "rejected" THEN sd.failed - 1 ELSE sd.failed)
                                    |-> retryDelay * k]
                  /\ (sd.pc = "rejected") => (sd.failed = retryAttempts))
    /\ [][\A s, t \in 1..Len(sends) :
            (s # t /\ sends'[s] # sends[s]) => sends'[t] = sends[t]]_vars

C34_Witness ==
    \E s, t \in 1..Len(sends) :
        /\ s < t
        /\ sends[s].pc = "request" /\ sends[s].attempt = 1 /\ sends[s].failed = 0
        /\ sends[t].pc = "request" /\ sends[t].attempt = 2 /\ sends[t].failed = 1
        /\ sends[t].sleeps = <<retryDelay>>

(* C35: batchSendEntries takes the chunks one after another.  While a chunk
   is awaited every member of it has been started and no entry of a later
   chunk has, every send of an earlier chunk has settled, and so at most
   batchSize member sends are unsettled at any time. *)
C35_ChunksSequential ==
    (bpc \in {"awaiting", "resolved"}) =>
        /\ (bpc = "awaiting") => Len(sends) = Min(bi + batchSize, Len(entries.items))
        /\ \A j \in 1..Len(sends) : sends[j].pc # "new"
        /\ \A j \in 1..Min(bi, Len(sends)) : Settled(sends[j])
        /\ Cardinality({j \in 1..Len(sends) : ~Settled(sends[j])}) <= batchSize

C35_Witness ==
    /\ bpc = "awaiting"
    /\ bi = batchSize
    /\ Len(sends) = batchSize + 1
    /\ sends[batchSize + 1].pc = "request"
    /\ \E j \in 1..batchSize : sends[j].pc = "rejected" /\ sends[j].http >= 1

(* C37: a send with an attached file path that does not exist fails fast.
   For every ceiling N it is rejected after a single run of the encoding
   step, without a backoff sleep. *)
C37_MissingFileFailsFast ==
    \A s \in 1..Len(sends) :
        LET sd == sends[s]
        IN  (sd.attempt >= 1 /\ Len(sd.files) > 0 /\ FirstMissing(sd.files) # 0) =>
              /\ sd.pc = "rejected"
              /\ sd.attempts = 1
              /\ sd.sleeps = <<>>
              /\ sd.http = 0

(* C39: every logical send terminates.  Under the scheduling of SpecLive
   every send resolves or rejects, having made at most N attempts, and a
   batch send that was accepted returns one outcome per entry. *)
C39_Terminates ==
    /\ [](\A s \in 1..Len(sends) : sends[s].attempts <= retryAttempts)
    /\ <>[](\A s \in 1..Len(sends) : Settled(sends[s]))
    /\ (bpc = "awaiting") ~> (bpc = "resolved" /\ Len(results) = Len(entries.items))

C39_Witness ==
    /\ bpc = "resolved"
    /\ Len(results) = batchSize + 1
    /\ \E s \in 1..batchSize :
          /\ sends[s].pc = "rejected"
          /\ sends[s].failed = 2
          /\ sends[batchSize + 1].pc = "resolved"
          /\ sends[batchSize + 1].failed = 1

-----------------------------------------------------------------------------
(* Properties of the configuration *)

(* C31: once an SDK has been constructed, the values of the Config it reads
   (credentials, endpoint, timeout, retry policy) change only in a step that
   is a Config.update call; no send, no HTTP completion, no timer and no later
   KryosSDK.init call, successful or throwing, changes them. *)
C31_ConfigReadOnly ==
    [][(conf.sdks >= 1 /\ TheConfig' # TheConfig) => conf'.updates = conf.updates + 1]_vars

(* C40: a send is resolved only after an HTTP attempt of it was made and
   succeeded, whatever retry count the configuration holds. *)
C40_ResolvedAfterSuccess ==
    \A s \in 1..Len(sends) :
        (sends[s].pc = "resolved") =>
            /\ sends[s].http >= 1
            /\ sends[s].value = [data |-> "body", id |-> sends[s].attempts]

(* C32: any two telemetry records built by sendMetrics, sendEvent or
   sendError carry distinct external identifiers, also when both are built at
   the same clock reading. *)
C32_DistinctIds ==
    \A i, j \in 1..Len(tele.records) :
        i # j => tele.records[i].externalId # tele.records[j].externalId

-----------------------------------------------------------------------------
(* Properties of the wrapped res.end *)

(* C38: every call of the wrapped res.end, under the request logger, the
   metrics collector or both stacked, reaches the host's original end exactly
   once, also when recording the metric fails. *)
C38_ForwardsOnce ==
    mw.originalEnd = mw.endCalls

====
